---- MODULE Spec2Model ----
(***************************************************************************)
(* Host-side log-frame decoding of the RC-RL UART harness.                 *)
(*                                                                         *)
(* A receiver script accumulates the bytes the device sends into one       *)
(* buffer (all_data) and, once reception has ended, hands the buffer to a  *)
(* log-frame parser.  The implementations of the frame and entry analysis  *)
(* are modelled each from its own source file:                             *)
(*   cr   complete_receiver.extract_performance_logs                       *)
(*   ril  receive_image_and_logs.parse_logs                                *)
(*   rlt  receive_logs_then_image.parse_logs                               *)
(*   slt  simple_log_test.main (header and count analysis)                 *)
(*   et   extended_test.main (sizes, verdict and footer search)            *)
(*   trr  test_raw_receive (header, count and footer search)               *)
(*   pc   python_correct.parse_log_entry (entry decoder)                   *)
(* Specifications: Spec (reception, then one parser as its script calls    *)
(* it), SpecDiag (the scripts that print size and footer diagnostics),     *)
(* SpecParse (the parsers called on any buffer and offset), SpecCodec (one *)
(* entry packed by the device and decoded by a script), SpecRecv (the      *)
(* timed receive loop of complete_receiver and the steps after it).        *)
(* Bytes are integers 0..255, buffers are sequences of bytes, and offsets  *)
(* are 0-based as in the Python source.                                    *)
(***************************************************************************)
EXTENDS Integers, Sequences, FiniteSets, TLC

VARIABLES all_data, recv_count, device, pc, script, start_offset, ret,
          now, last_recv_time, reads, entry,
          line, stream, window,
          expected_len, image_bytes, buf, found_first, resp_len,
          images, idx, sent, results, stop_on_error,
          header, entry_count, log_entries, perf_csv, log_data,
          recv_pc, stop_event, done_event, out_bin, port_open, read_deadline

\* The state of a sender script and of the serial line it talks over: the
\* bytes waiting in the port's input buffer (line), the bytes the device has
\* still to emit (stream), the sliding window of a sentinel search.
\* The locals of send_with_length's fallback path.
length_vars == <<expected_len, image_bytes, buf, found_first, resp_len>>

\* The state of a folder loop: the sorted listing, the loop index, the names
\* of the images whose payload has been written, the rows written so far.
folder_vars == <<images, idx, sent, results, stop_on_error>>

\* The locals of python_correct.receive_performance_logs, the CSV it writes,
\* and the log buffer of receive_logs_then_image.main.
logs_vars == <<header, entry_count, log_entries, perf_csv, log_data>>

\* The receiver thread of python_correct.main: where it stands, the two
\* events, the file it writes, and whether the port is open.
thread_vars == <<recv_pc, stop_event, done_event, out_bin, port_open,
                 read_deadline>>

perf_vars == <<logs_vars, thread_vars>>

link == <<line, stream, window, length_vars, folder_vars, perf_vars>>

vars == <<all_data, recv_count, device, pc, script, start_offset, ret,
          now, last_recv_time, reads, entry, link>>

\* send_with_length has not been called.
LengthIdle ==
    /\ expected_len = 0
    /\ image_bytes = <<>>
    /\ buf = <<>>
    /\ found_first = FALSE
    /\ resp_len = [hi |-> 0, lo |-> 0]

\* No folder loop is running.
FolderIdle ==
    /\ images = <<>>
    /\ idx = 1
    /\ sent = <<>>
    /\ results = <<>>
    /\ stop_on_error = FALSE

\* No log reception and no receiver thread is running.
PerfIdle ==
    /\ header = <<>>
    /\ entry_count = 0
    /\ log_entries = <<>>
    /\ perf_csv = [none |-> TRUE]
    /\ log_data = <<>>
    /\ recv_pc = "none"
    /\ stop_event = FALSE
    /\ done_event = FALSE
    /\ out_bin = <<>>
    /\ port_open = TRUE
    /\ read_deadline = 0

\* The receiver scripts never touch the sender state.
LinkIdle ==
    /\ line = <<>>
    /\ stream = <<>>
    /\ window = <<>>
    /\ LengthIdle
    /\ FolderIdle
    /\ PerfIdle

-----------------------------------------------------------------------------
(* Bounds of the model.                                                    *)

\* Largest number of chunks the device sends before reception ends.
MaxChunks == 4
\* Largest entry count a device-built header declares.
MaxCount == 2
\* Largest search offset a caller passes to a parser.
MaxStart == 2
\* The max_timeout argument of receive_all_data, in clock ticks.
max_timeout == 5
\* The idle_timeout argument of receive_all_data, in clock ticks.
idle_timeout == 2
\* The longest time one pass of the receive loop takes, in clock ticks.
MaxPass == 2
\* Largest number of bytes in a device response to a sender script.
MaxStream == 6
\* The read_timeout argument of the sender scripts, in clock ticks.
read_timeout == 2
\* Largest expected_len a caller passes to send_with_length.
MaxExpected == 6
\* Largest number of images in the input folder.
MaxImages == 2
\* The timeout argument of receive_performance_logs, in clock ticks.
timeout == 2
\* The width and the height of the received image, scaled down from 64.
OUT_WIDTH == 2
OUT_HEIGHT == 2

-----------------------------------------------------------------------------
(* Python values.                                                          *)

None == [none |-> TRUE]

\* A Python str in an error slot, kept apart from None.
Str(s) == [str |-> s]

\* The outcome of a call that raises exc instead of returning (a one-element
\* tuple, so that it can be compared with any returned list or pair).
Raised(exc) == <<[raised |-> exc]>>

Min(S) == CHOOSE x \in S : \A y \in S : x <= y

\* len(data)
len(data) == Len(data)

\* data[lo:hi] for 0 <= lo, hi: the slice is clamped to the buffer.
Slice(data, lo, hi) ==
    SubSeq(data, lo + 1, IF hi < Len(data) THEN hi ELSE Len(data))

\* bytes.find(sub, start): least index >= start where sub occurs, else -1.
\* Variant: the start argument is ignored.
FindFromZero(data, sub, start) ==
    LET hits == {i \in 0..(Len(data) - Len(sub)) :
                    SubSeq(data, i + 1, i + Len(sub)) = sub}
    IN  IF hits = {} THEN -1 ELSE Min(hits)

\* Variant: the last occurrence is taken (rfind).
FindLast(data, sub, start) ==
    LET hits == {i \in start..(Len(data) - Len(sub)) :
                    SubSeq(data, i + 1, i + Len(sub)) = sub}
    IN  IF hits = {} THEN -1 ELSE CHOOSE x \in hits : \A y \in hits : y <= x

Find(data, sub, start) ==
    LET hits == {i \in start..(Len(data) - Len(sub)) :
                    SubSeq(data, i + 1, i + Len(sub)) = sub}
    IN  IF hits = {} THEN -1 ELSE Min(hits)

\* A Python int of up to 32 bits is kept as two 16-bit limbs, value
\* hi * 65536 + lo, so that words such as 0xDEADBEEF stay exact.
Wide(hi, lo) == [hi |-> hi, lo |-> lo]

\* The plain integer of a wide value that fits (hi < 32768).
IntOf(w) == w.hi * 65536 + w.lo

\* The big-endian value of at most two bytes.
RECURSIVE BytesValue(_)
BytesValue(bs) ==
    IF bs = <<>> THEN 0
    ELSE 256 * BytesValue(SubSeq(bs, 1, Len(bs) - 1)) + bs[Len(bs)]

\* int.from_bytes(bs, 'big') for at most four bytes.
from_bytes_big(bs) ==
    LET n == Len(bs)
        cut == IF n > 2 THEN n - 2 ELSE 0
    IN  Wide(BytesValue(SubSeq(bs, 1, cut)), BytesValue(SubSeq(bs, cut + 1, n)))

\* (v >> k) & mask on a wide value, for a mask of the form 2^w - 1 (w <= 4).
Field(v, k, mask) ==
    IF k >= 16
    THEN (v.hi \div (2 ^ (k - 16))) % (mask + 1)
    ELSE LET m == (mask + 1) * (2 ^ k)
             low == IF m <= 65536 THEN v.lo % m
                    ELSE (v.hi % (m \div 65536)) * 65536 + v.lo
         IN  low \div (2 ^ k)

-----------------------------------------------------------------------------
(* Wire literals.                                                          *)

\* b'LOG:'
LOG_HEADER == <<76, 79, 71, 58>>
\* b'END\n'
END_FOOTER == <<69, 78, 68, 10>>
\* 0xDEADBEEF as the device sends it (big-endian).
DEFAULT_ENTRY == <<222, 173, 190, 239>>

-----------------------------------------------------------------------------
(* Entry decoders, one per script (the key names differ).                  *)

\* Variant: the dividers in the order of python_correct.py, core3 at bit 15
\* down to core0 at bit 3.
cr_decode_log_entry_dividers_reversed(entry_val) ==
    [raw           |-> entry_val,
     core_busy     |-> Field(entry_val, 28, 15),
     core0_busy    |-> Field(entry_val, 31, 1),
     core1_busy    |-> Field(entry_val, 30, 1),
     core2_busy    |-> Field(entry_val, 29, 1),
     core3_busy    |-> Field(entry_val, 28, 1),
     fifo1_load    |-> Field(entry_val, 25, 7),
     fifo2_load    |-> Field(entry_val, 22, 7),
     fifo3_load    |-> Field(entry_val, 19, 7),
     core0_div     |-> Field(entry_val, 3, 15),
     core1_div     |-> Field(entry_val, 7, 15),
     core2_div     |-> Field(entry_val, 11, 15),
     core3_div     |-> Field(entry_val, 15, 15),
     rl_enabled    |-> Field(entry_val, 2, 1)]

cr_decode_log_entry(entry_val) ==
    [raw           |-> entry_val,
     core_busy     |-> Field(entry_val, 28, 15),
     core0_busy    |-> Field(entry_val, 31, 1),
     core1_busy    |-> Field(entry_val, 30, 1),
     core2_busy    |-> Field(entry_val, 29, 1),
     core3_busy    |-> Field(entry_val, 28, 1),
     fifo1_load    |-> Field(entry_val, 25, 7),
     fifo2_load    |-> Field(entry_val, 22, 7),
     fifo3_load    |-> Field(entry_val, 19, 7),
     core0_div     |-> Field(entry_val, 15, 15),
     core1_div     |-> Field(entry_val, 11, 15),
     core2_div     |-> Field(entry_val, 7, 15),
     core3_div     |-> Field(entry_val, 3, 15),
     rl_enabled    |-> Field(entry_val, 2, 1)]

\* Variant: the layout of python_correct.py, with fifo3_load at bit 25 and
\* fifo1_load at bit 19.
ril_decode_log_entry_fifo_reversed(entry_val) ==
    [raw           |-> entry_val,
     core_busy     |-> Field(entry_val, 28, 15),
     fifo1_load    |-> Field(entry_val, 19, 7),
     fifo2_load    |-> Field(entry_val, 22, 7),
     fifo3_load    |-> Field(entry_val, 25, 7),
     core0_divider |-> Field(entry_val, 15, 15),
     core1_divider |-> Field(entry_val, 11, 15),
     core2_divider |-> Field(entry_val, 7, 15),
     core3_divider |-> Field(entry_val, 3, 15)]

ril_decode_log_entry(entry_val) ==
    [raw           |-> entry_val,
     core_busy     |-> Field(entry_val, 28, 15),
     fifo1_load    |-> Field(entry_val, 25, 7),
     fifo2_load    |-> Field(entry_val, 22, 7),
     fifo3_load    |-> Field(entry_val, 19, 7),
     core0_divider |-> Field(entry_val, 15, 15),
     core1_divider |-> Field(entry_val, 11, 15),
     core2_divider |-> Field(entry_val, 7, 15),
     core3_divider |-> Field(entry_val, 3, 15)]

rlt_decode_log_entry(entry_val) ==
    [raw           |-> entry_val,
     core_busy     |-> Field(entry_val, 28, 15),
     fifo1_load    |-> Field(entry_val, 25, 7),
     fifo2_load    |-> Field(entry_val, 22, 7),
     fifo3_load    |-> Field(entry_val, 19, 7),
     core0_div     |-> Field(entry_val, 15, 15),
     core1_div     |-> Field(entry_val, 11, 15),
     core2_div     |-> Field(entry_val, 7, 15),
     core3_div     |-> Field(entry_val, 3, 15)]

\* python_correct.parse_log_entry(entry_bytes): struct.unpack('>I') of the
\* four bytes, then the fields; the busy flags are Python bools.
pc_parse_log_entry(entry_bytes) ==
    LET value == from_bytes_big(entry_bytes)
        core_busy == Field(value, 28, 15)
        fifo3_load == Field(value, 25, 7)
        fifo2_load == Field(value, 22, 7)
        fifo1_load == Field(value, 19, 7)
        core3_divider == Field(value, 15, 15)
        core2_divider == Field(value, 11, 15)
        core1_divider == Field(value, 7, 15)
        core0_divider == Field(value, 3, 15)
    IN  [core0_busy    |-> core_busy % 2 # 0,
         core1_busy    |-> (core_busy \div 2) % 2 # 0,
         core2_busy    |-> (core_busy \div 4) % 2 # 0,
         core3_busy    |-> (core_busy \div 8) % 2 # 0,
         fifo1_load    |-> fifo1_load,
         fifo2_load    |-> fifo2_load,
         fifo3_load    |-> fifo3_load,
         core0_divider |-> core0_divider,
         core1_divider |-> core1_divider,
         core2_divider |-> core2_divider,
         core3_divider |-> core3_divider]

-----------------------------------------------------------------------------
(* The device side of the codec: the entry layout documented in            *)
(* complete_receiver.decode_log_entry, packed as the specification's       *)
(* encode describes (each field masked to its width, then shifted).        *)

\* value & ((1 << width) - 1)
Mask(value, width) == value % (2 ^ width)

\* Variant: a field is shifted into place without being masked.
encode_unmasked(e) ==
    Wide((e.core_busy * 4096 + e.fifo1_load * 512 + e.fifo2_load * 64
            + e.fifo3_load * 8 + (e.core0_div \div 2)) % 65536,
         ((e.core0_div % 2) * 32768 + e.core1_div * 2048 + e.core2_div * 128
            + e.core3_div * 8 + e.rl_enabled * 4) % 65536)

\* The packed word: core_busy at bit 28, the fifo loads at 25, 22, 19, the
\* dividers at 15, 11, 7, 3, rl_enabled at 2.  The divider at bit 15 lies
\* across the two limbs.
encode(e) ==
    LET core_busy == Mask(e.core_busy, 4)
        fifo1_load == Mask(e.fifo1_load, 3)
        fifo2_load == Mask(e.fifo2_load, 3)
        fifo3_load == Mask(e.fifo3_load, 3)
        core0_div == Mask(e.core0_div, 4)
        core1_div == Mask(e.core1_div, 4)
        core2_div == Mask(e.core2_div, 4)
        core3_div == Mask(e.core3_div, 4)
        rl_enabled == Mask(e.rl_enabled, 1)
    IN  Wide(core_busy * 4096 + fifo1_load * 512 + fifo2_load * 64
                + fifo3_load * 8 + (core0_div \div 2),
             (core0_div % 2) * 32768 + core1_div * 2048 + core2_div * 128
                + core3_div * 8 + rl_enabled * 4)

\* The four bytes of a word as the device sends them, most significant first.
to_bytes_big(w) ==
    <<w.hi \div 256, w.hi % 256, w.lo \div 256, w.lo % 256>>

-----------------------------------------------------------------------------
(* complete_receiver.extract_performance_logs(data, start_offset)          *)

\* Variant: an entry counts as present as soon as its first byte is.
cr_entry_incomplete_first_byte(data, pos) == pos >= len(data)

\* Variant: the default entry 0xDEADBEEF ends the entry loop.
cr_entry_incomplete_or_default(data, pos) ==
    pos + 4 > len(data) \/ Slice(data, pos, pos + 4) = DEFAULT_ENTRY

\* if pos + 4 > len(data): the entry at pos is not fully in the buffer.
cr_entry_incomplete(data, pos) == pos + 4 > len(data)

\* The entry loop: stops at the first entry that is not fully in the buffer.
RECURSIVE cr_entries(_, _, _, _, _)
cr_entries(data, entry_start, count, i, entries) ==
    IF i >= count THEN entries
    ELSE LET pos == entry_start + (i * 4)
         IN  IF cr_entry_incomplete(data, pos) THEN entries
             ELSE LET val == from_bytes_big(Slice(data, pos, pos + 4))
                  IN  cr_entries(data, entry_start, count, i + 1,
                                 Append(entries, cr_decode_log_entry(val)))

\* Variant: the count is read with struct.unpack('>H', ...) and no length
\* check, as python_correct.py reads it; a header cut short raises.
extract_performance_logs_unpack(data, start) ==
    LET log_start == Find(data, LOG_HEADER, start)
    IN  IF log_start < 0 THEN <<>>
        ELSE IF log_start + 6 > len(data) THEN Raised("struct.error")
        ELSE LET count == IntOf(from_bytes_big(Slice(data, log_start + 4, log_start + 6)))
                 entry_start == log_start + 6
             IN  cr_entries(data, entry_start, count, 0, <<>>)

\* Returns the list of decoded entries; the empty list when the header is
\* missing or its count cannot be read.
extract_performance_logs(data, start) ==
    LET log_start == Find(data, LOG_HEADER, start)
    IN  IF log_start < 0 THEN <<>>
        ELSE IF log_start + 6 > len(data) THEN <<>>
        ELSE LET count == IntOf(from_bytes_big(Slice(data, log_start + 4, log_start + 6)))
                 entry_start == log_start + 6
             IN  cr_entries(data, entry_start, count, 0, <<>>)

-----------------------------------------------------------------------------
(* receive_image_and_logs.parse_logs(data)                                 *)

RECURSIVE ril_entries(_, _, _, _, _)
ril_entries(data, entry_start, count, i, entries) ==
    IF i >= count THEN entries
    ELSE LET entry_pos == entry_start + (i * 4)
         IN  IF entry_pos + 4 <= len(data)
             THEN LET entry_bytes == Slice(data, entry_pos, entry_pos + 4)
                      entry_val == from_bytes_big(entry_bytes)
                  IN  ril_entries(data, entry_start, count, i + 1,
                                  Append(entries, ril_decode_log_entry(entry_val)))
             ELSE entries

\* Variant: the bytes before the header are counted as available.
ril_actual_size_whole_buffer(data, log_start) == len(data)

\* actual_size = len(data) - log_start
ril_actual_size(data, log_start) == len(data) - log_start

\* Variant: strict comparison of the sizes.
ril_complete_strict(actual_size, expected_size, has_end) ==
    actual_size > expected_size /\ has_end

\* Variant: the footer alone decides.
ril_complete_footer_only(actual_size, expected_size, has_end) == has_end

\* 'complete': actual_size >= expected_size and has_end
ril_complete(actual_size, expected_size, has_end) ==
    actual_size >= expected_size /\ has_end

\* Returns the pair (result, error).
ril_parse_logs(data) ==
    LET log_start == Find(data, LOG_HEADER, 0)
    IN  IF log_start < 0 THEN <<None, Str("No LOG: header found")>>
        ELSE IF log_start + 6 > len(data) THEN <<None, Str("Incomplete log header")>>
        ELSE LET count_bytes == Slice(data, log_start + 4, log_start + 6)
                 count == IntOf(from_bytes_big(count_bytes))
                 expected_size == 4 + 2 + (count * 4) + 4
                 actual_size == ril_actual_size(data, log_start)
                 entries == ril_entries(data, log_start + 6, count, 0, <<>>)
                 end_pos == Find(data, END_FOOTER, log_start)
                 has_end == end_pos >= 0
             IN  << [count         |-> count,
                     entries       |-> entries,
                     expected_size |-> expected_size,
                     actual_size   |-> actual_size,
                     complete      |-> ril_complete(actual_size, expected_size, has_end),
                     has_end       |-> has_end],
                    None >>

\* main, the sample listing: what is printed for one entry.
ril_render_entry(e) ==
    IF e.raw = Wide(57005, 48879)
    THEN Str("0xDEADBEEF - DEFAULT TEST ENTRY")
    ELSE [Cores |-> e.core_busy,
          FIFOs |-> <<e.fifo1_load, e.fifo2_load, e.fifo3_load>>,
          Divs  |-> <<e.core0_divider, e.core1_divider,
                      e.core2_divider, e.core3_divider>>]

-----------------------------------------------------------------------------
(* receive_logs_then_image.parse_logs(data, start_pos)                     *)

\* The entry loop: an unreadable entry is skipped and the loop goes on.
RECURSIVE rlt_entries(_, _, _, _, _)
rlt_entries(data, entry_start, count, i, entries) ==
    IF i >= count THEN entries
    ELSE LET pos == entry_start + (i * 4)
         IN  IF pos + 4 <= len(data)
             THEN LET val == from_bytes_big(Slice(data, pos, pos + 4))
                  IN  rlt_entries(data, entry_start, count, i + 1,
                                  Append(entries, rlt_decode_log_entry(val)))
             ELSE rlt_entries(data, entry_start, count, i + 1, entries)

\* Variant: the header is searched from the start of the buffer.
rlt_parse_logs_whole_buffer(data, start_pos) ==
    LET log_pos == Find(data, LOG_HEADER, 0)
    IN  IF log_pos < 0 THEN <<None, Str("No LOG: header")>>
        ELSE IF log_pos + 6 > len(data) THEN <<None, Str("Incomplete header")>>
        ELSE LET count == IntOf(from_bytes_big(Slice(data, log_pos + 4, log_pos + 6)))
                 expected_size == 4 + 2 + (count * 4) + 4
                 entries == rlt_entries(data, log_pos + 6, count, 0, <<>>)
                 end_pos == Find(data, END_FOOTER, log_pos)
             IN  << [log_start     |-> log_pos,
                     log_end       |-> IF end_pos < 0 THEN log_pos + expected_size
                                       ELSE end_pos + 4,
                     count         |-> count,
                     entries       |-> entries,
                     has_end       |-> end_pos >= 0,
                     expected_size |-> expected_size],
                    None >>

\* Returns the pair (result, error).
rlt_parse_logs(data, start_pos) ==
    LET log_pos == Find(data, LOG_HEADER, start_pos)
    IN  IF log_pos < 0 THEN <<None, Str("No LOG: header")>>
        ELSE IF log_pos + 6 > len(data) THEN <<None, Str("Incomplete header")>>
        ELSE LET count == IntOf(from_bytes_big(Slice(data, log_pos + 4, log_pos + 6)))
                 expected_size == 4 + 2 + (count * 4) + 4
                 entries == rlt_entries(data, log_pos + 6, count, 0, <<>>)
                 end_pos == Find(data, END_FOOTER, log_pos)
             IN  << [log_start     |-> log_pos,
                     log_end       |-> IF end_pos < 0 THEN log_pos + expected_size
                                       ELSE end_pos + 4,
                     count         |-> count,
                     entries       |-> entries,
                     has_end       |-> end_pos >= 0,
                     expected_size |-> expected_size],
                    None >>

-----------------------------------------------------------------------------
(* simple_log_test.main: what the script reports about the log header in   *)
(* the bytes that follow the image.                                        *)

\* The report: whether and where 'LOG:' was found, whether the count was
\* printed and its value, whether the first entry was printed and its value.
slt_report(log_pos, count_read, count, entry_read, entry_val) ==
    [log_pos     |-> log_pos,
     count_read  |-> count_read,
     count       |-> count,
     entry_read  |-> entry_read,
     first_entry |-> entry_val]

slt_analyse(extra_data) ==
    LET log_pos == Find(extra_data, LOG_HEADER, 0)
    IN  IF log_pos >= 0
        THEN IF log_pos + 6 < len(extra_data)
             THEN LET count_bytes == Slice(extra_data, log_pos + 4, log_pos + 6)
                      count == IntOf(from_bytes_big(count_bytes))
                  IN  IF count > 0 /\ log_pos + 6 + 4 < len(extra_data)
                      THEN LET entry_bytes == Slice(extra_data, log_pos + 6, log_pos + 10)
                               entry_val == from_bytes_big(entry_bytes)
                           IN  slt_report(log_pos, TRUE, count, TRUE, entry_val)
                      ELSE slt_report(log_pos, TRUE, count, FALSE, Wide(0, 0))
             ELSE slt_report(log_pos, FALSE, 0, FALSE, Wide(0, 0))
        ELSE slt_report(log_pos, FALSE, 0, FALSE, Wide(0, 0))

-----------------------------------------------------------------------------
(* complete_receiver.extract_performance_logs: the footer line it prints.  *)

\* What a script prints about the footer: whether the search was made, and
\* the position found (-1 when not found).
footer_report(searched, end_pos) == [searched |-> searched, end_pos |-> end_pos]

\* end_pos = data.find(b'END\n', log_start), reached once the count is read.
cr_footer(data, start) ==
    LET log_start == Find(data, LOG_HEADER, start)
    IN  IF log_start < 0 THEN footer_report(FALSE, -1)
        ELSE IF log_start + 6 > len(data) THEN footer_report(FALSE, -1)
        ELSE footer_report(TRUE, Find(data, END_FOOTER, log_start))

-----------------------------------------------------------------------------
(* extended_test.main: the analysis of the bytes that follow the image.    *)

\* b'END\\n' as extended_test.py writes it: 'E' 'N' 'D', a backslash, 'n'.
ET_END_PATTERN == <<69, 78, 68, 92, 110>>

\* The report: where 'LOG:' was found, whether the count was printed and its
\* value, the two sizes printed, the verdict ('Complete log received' or
\* 'Missing n bytes'), whether the footer was searched and where it was found.
et_report(log_pos, count_read, count, expected_log_size, extra_bytes, complete, end_pos) ==
    [log_pos           |-> log_pos,
     count_read        |-> count_read,
     count             |-> count,
     expected_log_size |-> expected_log_size,
     extra_bytes       |-> extra_bytes,
     complete          |-> complete,
     missing           |-> IF complete \/ ~count_read THEN 0
                           ELSE expected_log_size - extra_bytes,
     searched          |-> count_read,
     end_pos           |-> end_pos]

\* extra_data = all_data[IMAGE_BYTES:], extra_bytes = len(all_data) - IMAGE_BYTES
et_analyse(extra_data, extra_bytes) ==
    LET log_pos == Find(extra_data, LOG_HEADER, 0)
    IN  IF log_pos >= 0
        THEN IF log_pos + 6 <= len(extra_data)
             THEN LET count_bytes == Slice(extra_data, log_pos + 4, log_pos + 6)
                      count == IntOf(from_bytes_big(count_bytes))
                      expected_log_size == 4 + 2 + (count * 4) + 4
                      end_pos == Find(extra_data, ET_END_PATTERN, 0)
                  IN  et_report(log_pos, TRUE, count, expected_log_size, extra_bytes,
                                extra_bytes >= expected_log_size, end_pos)
             ELSE et_report(log_pos, FALSE, 0, 0, extra_bytes, FALSE, -1)
        ELSE et_report(log_pos, FALSE, 0, 0, extra_bytes, FALSE, -1)

-----------------------------------------------------------------------------
(* test_raw_receive: the data analysis after the monitoring loop.          *)

trr_report(log_idx, count_read, count, end_idx) ==
    [log_idx    |-> log_idx,
     count_read |-> count_read,
     count      |-> count,
     searched   |-> TRUE,
     end_pos    |-> end_idx]

trr_analyse(received_bytes) ==
    LET log_idx == Find(received_bytes, LOG_HEADER, 0)
        end_idx == Find(received_bytes, END_FOOTER, 0)
    IN  IF log_idx >= 0 /\ log_idx + 6 <= len(received_bytes)
        THEN LET count_bytes == Slice(received_bytes, log_idx + 4, log_idx + 6)
             IN  trr_report(log_idx, TRUE, IntOf(from_bytes_big(count_bytes)), end_idx)
        ELSE trr_report(log_idx, FALSE, 0, end_idx)

-----------------------------------------------------------------------------
(* What the device may put on the line.                                    *)

\* A 16-bit count as the device sends it (big-endian).
U16(n) == <<n \div 256, n % 256>>

\* The chunks one read of the port may return: a frame start (header and
\* count), a footer, an entry word, a stray zero byte.
Chunks ==
    {LOG_HEADER \o U16(n) : n \in 0..MaxCount}
        \cup {END_FOOTER, DEFAULT_ENTRY, <<0>>}

\* The image sizes a script is configured with (scaled down), which is where
\* the bytes after the image start.
ImageSizes == 0..MaxStart

\* The search offsets a caller passes: an image size, or the end of a footer
\* in the buffer (where an earlier frame ended).
StartOffsets(data) ==
    (0..MaxStart) \cup
        {i + 4 : i \in {j \in 0..(Len(data) - 4) : SubSeq(data, j + 1, j + 4) = END_FOOTER}}

-----------------------------------------------------------------------------
(* The state machine.                                                      *)

Init ==
    /\ all_data = <<>>
    /\ recv_count = 0
    /\ device = "sending"
    /\ pc = "receiving"
    /\ script = "none"
    /\ start_offset = 0
    /\ ret = None
    /\ now = 0
    /\ last_recv_time = 0
    /\ reads = <<>>
    /\ entry = None
    /\ LinkIdle

\* One pass of the receive loop that finds bytes waiting:
\* new_data = ser.read(ser.in_waiting); all_data.extend(new_data).
Receive(new_data) ==
    /\ pc = "receiving"
    /\ device = "sending"
    /\ recv_count < MaxChunks
    /\ all_data' = all_data \o new_data
    /\ recv_count' = recv_count + 1
    /\ UNCHANGED <<device, pc, script, start_offset, ret,
                 now, last_recv_time, reads, entry, link>>

\* The same pass when the transmission is cut inside a chunk: only the first
\* k bytes arrive and the device sends nothing more.
ReceiveCut(new_data, k) ==
    /\ pc = "receiving"
    /\ device = "sending"
    /\ recv_count < MaxChunks
    /\ all_data' = all_data \o SubSeq(new_data, 1, k)
    /\ recv_count' = recv_count + 1
    /\ device' = "silent"
    /\ UNCHANGED <<pc, script, start_offset, ret,
                 now, last_recv_time, reads, entry, link>>

\* The receive loop ends (idle timeout or maximum timeout).
EndReception ==
    /\ pc = "receiving"
    /\ pc' = "received"
    /\ UNCHANGED <<all_data, recv_count, device, script, start_offset, ret,
                 now, last_recv_time, reads, entry, link>>

\* complete_receiver.main, step 4.
RunCompleteReceiver(s) ==
    /\ pc = "received"
    /\ pc' = "done"
    /\ script' = "cr"
    /\ start_offset' = s
    /\ ret' = extract_performance_logs(all_data, s)
    /\ UNCHANGED <<all_data, recv_count, device,
                 now, last_recv_time, reads, entry, link>>

\* receive_image_and_logs.main: the bytes after the image are parsed.
RunReceiveImageAndLogs(s) ==
    /\ pc = "received"
    /\ len(all_data) >= s
    /\ len(all_data) - s > 0
    /\ pc' = "done"
    /\ script' = "ril"
    /\ start_offset' = s
    /\ ret' = ril_parse_logs(Slice(all_data, s, len(all_data)))
    /\ UNCHANGED <<all_data, recv_count, device,
                 now, last_recv_time, reads, entry, link>>

\* receive_logs_then_image.parse_logs applied to the received buffer.
RunReceiveLogsThenImage(s) ==
    /\ pc = "received"
    /\ pc' = "done"
    /\ script' = "rlt"
    /\ start_offset' = s
    /\ ret' = rlt_parse_logs(all_data, s)
    /\ UNCHANGED <<all_data, recv_count, device,
                 now, last_recv_time, reads, entry, link>>

\* simple_log_test.main: the bytes after the image are analysed.
RunSimpleLogTest(s) ==
    /\ pc = "received"
    /\ len(all_data) >= s
    /\ pc' = "done"
    /\ script' = "slt"
    /\ start_offset' = s
    /\ ret' = slt_analyse(Slice(all_data, s, len(all_data)))
    /\ UNCHANGED <<all_data, recv_count, device,
                 now, last_recv_time, reads, entry, link>>

Next ==
    \/ \E c \in Chunks : Receive(c)
    \/ \E c \in Chunks : \E k \in 1..(Len(c) - 1) : ReceiveCut(c, k)
    \/ EndReception
    \/ \E s \in StartOffsets(all_data) : RunCompleteReceiver(s)
    \/ \E s \in ImageSizes : RunReceiveImageAndLogs(s)
    \/ \E s \in StartOffsets(all_data) : RunReceiveLogsThenImage(s)
    \/ \E s \in ImageSizes : RunSimpleLogTest(s)

Spec == Init /\ [][Next]_vars

-----------------------------------------------------------------------------
(* The scripts that print size and footer diagnostics.                     *)

\* extended_test.main: the bytes after the image are analysed.
RunExtendedTest(s) ==
    /\ pc = "received"
    /\ len(all_data) >= s
    /\ len(all_data) - s > 0
    /\ pc' = "done"
    /\ script' = "et"
    /\ start_offset' = s
    /\ ret' = et_analyse(Slice(all_data, s, len(all_data)), len(all_data) - s)
    /\ UNCHANGED <<all_data, recv_count, device,
                 now, last_recv_time, reads, entry, link>>

\* test_raw_receive: everything received is analysed.
RunTestRawReceive ==
    /\ pc = "received"
    /\ len(all_data) > 0
    /\ pc' = "done"
    /\ script' = "trr"
    /\ start_offset' = 0
    /\ ret' = trr_analyse(all_data)
    /\ UNCHANGED <<all_data, recv_count, device,
                 now, last_recv_time, reads, entry, link>>

NextDiag ==
    \/ \E c \in Chunks : Receive(c)
    \/ \E c \in Chunks : \E k \in 1..(Len(c) - 1) : ReceiveCut(c, k)
    \/ EndReception
    \/ \E s \in StartOffsets(all_data) : RunCompleteReceiver(s)
    \/ \E s \in ImageSizes : RunReceiveImageAndLogs(s)
    \/ \E s \in StartOffsets(all_data) : RunReceiveLogsThenImage(s)
    \/ \E s \in ImageSizes : RunExtendedTest(s)
    \/ RunTestRawReceive

SpecDiag == Init /\ [][NextDiag]_vars

-----------------------------------------------------------------------------
(* The three parsers called directly on whatever was received, without the *)
(* checks their callers make first.                                        *)

\* receive_image_and_logs.parse_logs(data) on the whole buffer.
CallParseLogs ==
    /\ pc = "received"
    /\ pc' = "done"
    /\ script' = "ril"
    /\ start_offset' = 0
    /\ ret' = ril_parse_logs(all_data)
    /\ UNCHANGED <<all_data, recv_count, device,
                 now, last_recv_time, reads, entry, link>>

NextParse ==
    \/ \E c \in Chunks : Receive(c)
    \/ \E c \in Chunks : \E k \in 1..(Len(c) - 1) : ReceiveCut(c, k)
    \/ EndReception
    \/ \E s \in StartOffsets(all_data) : RunCompleteReceiver(s)
    \/ CallParseLogs
    \/ \E s \in StartOffsets(all_data) : RunReceiveLogsThenImage(s)

SpecParse == Init /\ [][NextParse]_vars

-----------------------------------------------------------------------------
(* complete_receiver.receive_all_data and the steps of main that follow    *)
(* it.  The clock counts ticks since start_time; the time a pass of the    *)
(* loop takes (the read and the sleep at its end) is at least one tick.    *)

\* Variant: the loop ends as soon as the elapsed time equals max_timeout.
max_timeout_reached_at(elapsed) == elapsed >= max_timeout

\* if elapsed > max_timeout: break
max_timeout_reached(elapsed) == elapsed > max_timeout

\* if idle_time > idle_timeout and len(all_data) > 0: break
idle_timeout_reached(idle_time, data) ==
    idle_time > idle_timeout /\ len(data) > 0

\* Variant: the bytes read replace the buffer.
extend_overwrite(data, new_data) == new_data

\* all_data.extend(new_data)
extend(data, new_data) == data \o new_data

\* The image bytes extract_image builds the picture from: the first
\* expected_size bytes, zero-padded when fewer were received; None for an
\* empty buffer.
RECURSIVE Zeros(_)
Zeros(n) == IF n <= 0 THEN <<>> ELSE <<0>> \o Zeros(n - 1)

extract_image(data, expected_size) ==
    IF len(data) < expected_size
    THEN IF len(data) = 0 THEN None
         ELSE data \o Zeros(expected_size - len(data))
    ELSE Slice(data, 0, expected_size)

\* What one read of the port returns during the timed reception.
RecvChunks == {LOG_HEADER \o U16(1), DEFAULT_ENTRY, END_FOOTER}

\* The device streams without pause, never sends, or sends now and then.
Devices == {"streaming", "silent", "sending"}

InitRecv ==
    /\ all_data = <<>>
    /\ recv_count = 0
    /\ device \in Devices
    /\ pc = "receiving"
    /\ script = "none"
    /\ start_offset = 0
    /\ ret = None
    /\ now = 0
    /\ last_recv_time = 0
    /\ reads = <<>>
    /\ entry = None
    /\ LinkIdle

\* The pass that finds elapsed > max_timeout.
BreakMaxTimeout ==
    /\ pc = "receiving"
    /\ max_timeout_reached(now)
    /\ pc' = "received"
    /\ UNCHANGED <<all_data, recv_count, device, script, start_offset, ret,
                 now, last_recv_time, reads, entry, link>>

\* The pass that finds idle_time > idle_timeout with bytes in the buffer.
BreakIdleTimeout ==
    /\ pc = "receiving"
    /\ ~max_timeout_reached(now)
    /\ idle_timeout_reached(now - last_recv_time, all_data)
    /\ pc' = "received"
    /\ UNCHANGED <<all_data, recv_count, device, script, start_offset, ret,
                 now, last_recv_time, reads, entry, link>>

\* A pass with ser.in_waiting > 0: the waiting bytes are read and appended,
\* last_recv_time is set, and the pass ends d ticks later.
PassRead(new_data, d) ==
    /\ pc = "receiving"
    /\ ~max_timeout_reached(now)
    /\ ~idle_timeout_reached(now - last_recv_time, all_data)
    /\ device # "silent"
    /\ all_data' = extend(all_data, new_data)
    /\ last_recv_time' = now
    /\ recv_count' = recv_count + 1
    /\ reads' = Append(reads, new_data)
    /\ now' = now + d
    /\ UNCHANGED <<device, pc, script, start_offset, ret, entry, link>>

\* A pass with nothing waiting: only the sleep.
PassIdle(d) ==
    /\ pc = "receiving"
    /\ ~max_timeout_reached(now)
    /\ ~idle_timeout_reached(now - last_recv_time, all_data)
    /\ device # "streaming"
    /\ now' = now + d
    /\ UNCHANGED <<all_data, recv_count, device, pc, script, start_offset, ret,
                 last_recv_time, reads, entry, link>>

LoopPass ==
    \/ BreakMaxTimeout
    \/ BreakIdleTimeout
    \/ \E c \in RecvChunks : \E d \in 1..MaxPass : PassRead(c, d)
    \/ \E d \in 1..MaxPass : PassIdle(d)

\* main after receive_all_data has returned: the raw data is saved, the
\* image is extracted, the logs are searched after the image.
ProcessReceived(image_size) ==
    /\ pc = "received"
    /\ pc' = "done"
    /\ script' = "main"
    /\ start_offset' = image_size
    /\ ret' = [raw     |-> all_data,
               image   |-> extract_image(all_data, image_size),
               entries |-> extract_performance_logs(all_data, image_size)]
    /\ UNCHANGED <<all_data, recv_count, device,
                 now, last_recv_time, reads, entry, link>>

NextRecv ==
    \/ LoopPass
    \/ \E s \in ImageSizes : ProcessReceived(s)

\* The loop has no blocking call: a pass that can be made is made.
SpecRecv == InitRecv /\ [][NextRecv]_vars /\ WF_vars(LoopPass)

-----------------------------------------------------------------------------
(* The entry codec on its own: an entry is packed and sent by the device,  *)
(* or four bytes arrive from the line, and a decoder is applied to them.   *)

\* Field values handed to encode: a mixed bit pattern, the largest value of
\* the width and one past it; zero too for the 4-bit and 1-bit fields.
FieldInputs(width) ==
    IF width = 4 THEN {0, 10, 15, 16}
    ELSE IF width = 3 THEN {6, 7, 8}
    ELSE {0, 1, 2}

TelemetryEntries ==
    [core_busy  : FieldInputs(4),
     fifo1_load : FieldInputs(3),
     fifo2_load : FieldInputs(3),
     fifo3_load : FieldInputs(3),
     core0_div  : FieldInputs(4),
     core1_div  : FieldInputs(4),
     core2_div  : FieldInputs(4),
     core3_div  : FieldInputs(4),
     rl_enabled : FieldInputs(1)]

\* The bytes an entry on the line is made of: the bytes of 0xDEADBEEF,
\* alternating bit patterns, single low bits, all zeros and all ones.
ByteValues == {0, 4, 85, 170, 173, 190, 222, 239, 255}

EntryBytes == [1..4 -> ByteValues]

Decoders == {"cr", "ril", "rlt", "pc"}

InitCodec ==
    /\ recv_count = 0
    /\ device = "sending"
    /\ script = "none"
    /\ start_offset = 0
    /\ ret = None
    /\ now = 0
    /\ last_recv_time = 0
    /\ reads = <<>>
    /\ LinkIdle
    /\ \/ /\ pc = "entry"
          /\ entry \in TelemetryEntries
          /\ all_data = <<>>
       \/ /\ pc = "bytes"
          /\ entry = None
          /\ all_data \in EntryBytes

\* The device packs the entry and sends the word, most significant byte first.
DeviceEncode ==
    /\ pc = "entry"
    /\ all_data' = to_bytes_big(encode(entry))
    /\ pc' = "bytes"
    /\ UNCHANGED <<recv_count, device, script, start_offset, ret,
                 now, last_recv_time, reads, entry, link>>

\* A script decodes the four entry bytes:
\* decode_log_entry(int.from_bytes(entry_bytes, 'big')), or
\* python_correct.parse_log_entry(entry_bytes).
DecodeEntry(s) ==
    /\ pc = "bytes"
    /\ pc' = "decoded"
    /\ script' = s
    /\ ret' = CASE s = "cr"  -> cr_decode_log_entry(from_bytes_big(Slice(all_data, 0, 4)))
                [] s = "ril" -> ril_decode_log_entry(from_bytes_big(Slice(all_data, 0, 4)))
                [] s = "rlt" -> rlt_decode_log_entry(from_bytes_big(Slice(all_data, 0, 4)))
                [] s = "pc"  -> pc_parse_log_entry(Slice(all_data, 0, 4))
    /\ UNCHANGED <<all_data, recv_count, device, start_offset,
                 now, last_recv_time, reads, entry, link>>

NextCodec ==
    \/ DeviceEncode
    \/ \E s \in Decoders : DecodeEntry(s)

SpecCodec == InitCodec /\ [][NextCodec]_vars

-----------------------------------------------------------------------------
(* Sentinel mode of the sender scripts: the payload is written, then the   *)
(* response is read one byte at a time until it ends with the sentinel.    *)
(*   sws   send_images_uart.UartImageSender.send_with_sentinel             *)
(*   sars  send_and_receive.SimpleSender.send_and_receive_sentinel         *)

\* b"/0/0" (SENTINEL in send_and_receive.py).
SENTINEL_DEFAULT == <<47, 48, 47, 48>>

\* window.extend(b), with no bound on the window.
slide_unbounded(w, b, n) == w \o b

\* window.extend(b); if len(window) > n: del window[0:len(window) - n]
slide(w, b, n) ==
    LET extended == w \o b
    IN  IF len(extended) > n
        THEN Slice(extended, len(extended) - n, len(extended))
        ELSE extended

\* data[:-len(sentinel)]
strip(data, sentinel) == Slice(data, 0, len(data) - len(sentinel))

\* The bytes a response is made of: '/', '0' and a payload byte.
ResponseBytes == {47, 48, 65}

\* The responses a device may emit, up to MaxStream bytes long.
Responses == UNION {[1..n -> ResponseBytes] : n \in 0..MaxStream}

SentinelScripts == {"sws", "sars"}

\* The payload has been written and flushed; nothing has been read.
InitSentinel ==
    /\ all_data = <<>>
    /\ recv_count = 0
    /\ device = "sending"
    /\ pc = "reading"
    /\ script \in SentinelScripts
    /\ start_offset = 0
    /\ ret = None
    /\ now = 0
    /\ last_recv_time = 0
    /\ reads = <<>>
    /\ entry = None
    /\ line = <<>>
    /\ stream \in Responses
    /\ window = <<>>
    /\ LengthIdle
    /\ FolderIdle
    /\ PerfIdle

\* The next byte of the response reaches the port's input buffer, as long
\* as the call is in progress.
DeviceEmit ==
    /\ pc \notin {"returned", "raised"}
    /\ stream # <<>>
    /\ line' = Append(line, Head(stream))
    /\ stream' = Tail(stream)
    /\ UNCHANGED <<all_data, recv_count, device, pc, script, start_offset, ret,
                 now, last_recv_time, reads, entry, window, length_vars,
                 folder_vars,
                 perf_vars>>

\* The body of both read loops once ser.read(1) has returned a byte b:
\* the byte is appended, the window slides, and on a match the data without
\* the sentinel is returned.
TakeByte ==
    LET b      == <<Head(line)>>
        data   == all_data \o b
        win    == slide(window, b, len(SENTINEL_DEFAULT))
    IN  /\ line' = Tail(line)
        /\ reads' = Append(reads, b)
        /\ recv_count' = recv_count + 1
        /\ window' = win
        /\ IF win = SENTINEL_DEFAULT
           THEN /\ all_data' = strip(data, SENTINEL_DEFAULT)
                /\ ret' = strip(data, SENTINEL_DEFAULT)
                /\ pc' = "returned"
           ELSE /\ all_data' = data
                /\ UNCHANGED <<ret, pc>>

\* send_with_sentinel: ser.read(1) returns a byte.
SwsReadByte ==
    /\ script = "sws"
    /\ pc = "reading"
    /\ line # <<>>
    /\ TakeByte
    /\ UNCHANGED <<device, script, start_offset, now, last_recv_time, entry,
                 stream, length_vars,
                 folder_vars,
                 perf_vars>>

\* send_with_sentinel: ser.read(1) times out with nothing read.
SwsReadTimeout ==
    /\ script = "sws"
    /\ pc = "reading"
    /\ line = <<>>
    /\ pc' = "raised"
    /\ ret' = Raised("TimeoutError")
    /\ UNCHANGED <<all_data, recv_count, device, script, start_offset,
                 now, last_recv_time, reads, entry, link>>

\* send_and_receive_sentinel: a pass of the loop whose ser.read(1) returns a
\* byte; the pass takes d ticks.
SarsReadByte(d) ==
    /\ script = "sars"
    /\ pc = "reading"
    /\ now < read_timeout
    /\ line # <<>>
    /\ TakeByte
    /\ now' = now + d
    /\ UNCHANGED <<device, script, start_offset, last_recv_time, entry, stream,
                 length_vars,
                 folder_vars,
                 perf_vars>>

\* send_and_receive_sentinel: a pass whose ser.read(1) times out (continue).
SarsReadEmpty ==
    /\ script = "sars"
    /\ pc = "reading"
    /\ now < read_timeout
    /\ line = <<>>
    /\ now' = now + 1
    /\ UNCHANGED <<all_data, recv_count, device, pc, script, start_offset, ret,
                 last_recv_time, reads, entry, link>>

\* send_and_receive_sentinel: the loop condition time.time() < end_time
\* fails.
SarsDeadline ==
    /\ script = "sars"
    /\ pc = "reading"
    /\ ~(now < read_timeout)
    /\ pc' = "raised"
    /\ ret' = Raised("TimeoutError")
    /\ UNCHANGED <<all_data, recv_count, device, script, start_offset,
                 now, last_recv_time, reads, entry, link>>

NextSentinel ==
    \/ DeviceEmit
    \/ SwsReadByte
    \/ SwsReadTimeout
    \/ \E d \in 0..1 : SarsReadByte(d)
    \/ SarsReadEmpty
    \/ SarsDeadline

SpecSentinel == InitSentinel /\ [][NextSentinel]_vars

-----------------------------------------------------------------------------
(* Length mode of send_images_uart: the payload is written behind a length *)
(* header, then the response is read: a response header and its payload,   *)
(* or, when no header comes, the raw bytes of the image and a logger block.*)
(*   swl  send_images_uart.UartImageSender.send_with_length                *)

RESP_BYTE == 165

RECURSIVE Reverse(_)
Reverse(bs) ==
    IF bs = <<>> THEN <<>> ELSE Append(Reverse(Tail(bs)), Head(bs))

\* int.from_bytes(bs, "little") for at most four bytes.
from_bytes_little(bs) == from_bytes_big(Reverse(bs))

\* n < w for a small n and a wide value w.
below(n, w) == w.hi > 0 \/ n < w.lo

\* What ser.read(w - n) returns with the bytes of waiting in the port: the
\* first w - n of them, or all of them when the read times out before that
\* many have arrived.
ser_read_wide(waiting, w, n) ==
    IF w.hi > 0 \/ w.lo - n > len(waiting)
    THEN waiting
    ELSE Slice(waiting, 0, w.lo - n)

\* What ser.read(n) returns.
ser_read(waiting, n) == ser_read_wide(waiting, Wide(0, n), 0)

\* buf.endswith(sentinel)
endswith(b, sentinel) ==
    /\ len(b) >= len(sentinel)
    /\ Slice(b, len(b) - len(sentinel), len(b)) = sentinel

\* len(hdr) >= 5 and hdr[0] == RESP_BYTE
proper_header(hdr) == len(hdr) >= 5 /\ hdr[1] = RESP_BYTE

\* The bytes of a raw image.
RawBytes == {0, RESP_BYTE}

\* What the device sends after the image: nothing, or a logger block of one
\* byte between two sentinels.
LoggerBlocks ==
    {<<>>, SENTINEL_DEFAULT \o <<1>> \o SENTINEL_DEFAULT}

\* The raw streams of a device that sends no response header.
RawStreams ==
    {img \o lg : img \in UNION {[1..n -> RawBytes] : n \in 0..MaxStream},
                 lg \in LoggerBlocks}

\* The expected_len argument; 0 stands for None as well, which the code
\* treats alike.
ExpectedLens == 0..MaxExpected

\* header + payload have been written and flushed.
InitLength ==
    /\ all_data = <<>>
    /\ recv_count = 0
    /\ device = "sending"
    /\ pc = "hdr"
    /\ script = "swl"
    /\ start_offset = 0
    /\ ret = None
    /\ now = 0
    /\ last_recv_time = 0
    /\ reads = <<>>
    /\ entry = None
    /\ line = <<>>
    /\ stream \in RawStreams
    /\ window = <<>>
    /\ expected_len \in ExpectedLens
    /\ image_bytes = <<>>
    /\ buf = <<>>
    /\ found_first = FALSE
    /\ resp_len = Wide(0, 0)
    /\ FolderIdle
    /\ PerfIdle

\* One call of self.ser.read that returns chunk: the bytes leave the port
\* and join the bytes read so far (kept as one chunk in reads); a read that
\* timed out although the device had more to send shows that the device
\* stalled.
Read(chunk, stalls) ==
    /\ line' = Slice(line, len(chunk), len(line))
    /\ reads' = IF reads = <<>> THEN <<chunk>> ELSE <<reads[1] \o chunk>>
    /\ device' = IF stalls /\ stream # <<>> THEN "stalled" ELSE device
    /\ UNCHANGED <<stream, recv_count>>

\* hdr = self.ser.read(5) and the choice between the header branch and the
\* fallback.
SwlReadHeader ==
    /\ pc = "hdr"
    /\ LET hdr == ser_read(line, 5)
       IN  /\ Read(hdr, len(hdr) < 5)
           /\ IF proper_header(hdr)
              THEN /\ resp_len' = from_bytes_little(Slice(hdr, 1, 5))
                   /\ all_data' = <<>>
                   /\ pc' = "payload"
              ELSE /\ all_data' = hdr
                   /\ pc' = IF expected_len > 0 THEN "image" ELSE "drain"
                   /\ UNCHANGED resp_len
    /\ UNCHANGED <<script, start_offset, ret, now, last_recv_time, entry,
                 window, expected_len, image_bytes, buf, found_first,
                 folder_vars,
                 perf_vars>>

\* Header branch, a pass of the loop: chunk = self.ser.read(resp_len -
\* len(data)); an empty chunk raises TimeoutError.
SwlReadPayload ==
    /\ pc = "payload"
    /\ below(len(all_data), resp_len)
    /\ LET chunk == ser_read_wide(line, resp_len, len(all_data))
       IN  /\ Read(chunk, below(len(all_data) + len(chunk), resp_len))
           /\ IF chunk = <<>>
              THEN /\ pc' = "raised"
                   /\ ret' = Raised("TimeoutError")
                   /\ UNCHANGED all_data
              ELSE /\ all_data' = all_data \o chunk
                   /\ UNCHANGED <<pc, ret>>
    /\ UNCHANGED <<script, start_offset, now, last_recv_time, entry,
                 window, length_vars,
                 folder_vars,
                 perf_vars>>

\* Header branch, the loop has ended: return bytes(data).
SwlReturnPayload ==
    /\ pc = "payload"
    /\ ~below(len(all_data), resp_len)
    /\ pc' = "returned"
    /\ ret' = [bytes |-> all_data]
    /\ UNCHANGED <<all_data, recv_count, device, script, start_offset,
                 now, last_recv_time, reads, entry, link>>

\* Fallback, a pass of the loop: chunk = self.ser.read(expected_len -
\* len(data)); an empty chunk breaks, and image_bytes is cut from the data.
SwlReadImage ==
    /\ pc = "image"
    /\ len(all_data) < expected_len
    /\ LET chunk == ser_read(line, expected_len - len(all_data))
       IN  /\ Read(chunk, len(all_data) + len(chunk) < expected_len)
           /\ IF chunk = <<>>
              THEN /\ image_bytes' = Slice(all_data, 0, expected_len)
                   /\ pc' = "logger"
                   /\ UNCHANGED all_data
              ELSE /\ all_data' = all_data \o chunk
                   /\ UNCHANGED <<pc, image_bytes>>
    /\ UNCHANGED <<script, start_offset, ret, now, last_recv_time, entry,
                 window, expected_len, buf, found_first, resp_len,
                 folder_vars,
                 perf_vars>>

\* Fallback, the loop has ended: image_bytes = bytes(data[:expected_len]).
SwlImageDone ==
    /\ pc = "image"
    /\ ~(len(all_data) < expected_len)
    /\ image_bytes' = Slice(all_data, 0, expected_len)
    /\ pc' = "logger"
    /\ UNCHANGED <<all_data, recv_count, device, script, start_offset, ret,
                 now, last_recv_time, reads, entry, line, stream, window,
                 expected_len, buf, found_first, resp_len,
                 folder_vars,
                 perf_vars>>

\* The logger loop, a pass whose self.ser.read(1) returns a byte; now counts
\* the ticks since the loop was entered and the pass takes d ticks.
SwlLoggerByte(d) ==
    /\ pc = "logger"
    /\ now < read_timeout
    /\ line # <<>>
    /\ LET b     == ser_read(line, 1)
           added == buf \o b
       IN  /\ Read(b, FALSE)
           /\ IF ~found_first /\ endswith(added, SENTINEL_DEFAULT)
              THEN /\ found_first' = TRUE
                   /\ buf' = <<>>
                   /\ UNCHANGED <<pc, ret>>
              ELSE IF found_first /\ endswith(added, SENTINEL_DEFAULT)
              THEN /\ buf' = strip(added, SENTINEL_DEFAULT)
                   /\ pc' = "returned"
                   /\ ret' = [image  |-> image_bytes,
                              logger |-> strip(added, SENTINEL_DEFAULT)]
                   /\ UNCHANGED found_first
              ELSE /\ buf' = added
                   /\ UNCHANGED <<pc, ret, found_first>>
    /\ now' = now + d
    /\ UNCHANGED <<all_data, script, start_offset, last_recv_time, entry,
                 window, expected_len, image_bytes, resp_len,
                 folder_vars,
                 perf_vars>>

\* The logger loop ends without a second sentinel, on an empty read or at
\* its deadline: return (image_bytes, b"").
SwlLoggerEnd ==
    /\ pc = "logger"
    /\ line = <<>> \/ ~(now < read_timeout)
    /\ pc' = "returned"
    /\ ret' = [image |-> image_bytes, logger |-> <<>>]
    /\ UNCHANGED <<all_data, recv_count, device, script, start_offset,
                 now, last_recv_time, reads, entry, link>>

\* No expected length: chunk = self.ser.read(1024) until a read is empty,
\* then return bytes(data).
SwlDrain ==
    /\ pc = "drain"
    /\ LET chunk == ser_read(line, 1024)
       IN  /\ Read(chunk, FALSE)
           /\ IF chunk = <<>>
              THEN /\ pc' = "returned"
                   /\ ret' = [bytes |-> all_data]
                   /\ UNCHANGED all_data
              ELSE /\ all_data' = all_data \o chunk
                   /\ UNCHANGED <<pc, ret>>
    /\ UNCHANGED <<script, start_offset, now, last_recv_time, entry,
                 window, length_vars,
                 folder_vars,
                 perf_vars>>

NextLength ==
    \/ DeviceEmit
    \/ SwlReadHeader
    \/ SwlReadPayload
    \/ SwlReturnPayload
    \/ SwlReadImage
    \/ SwlImageDone
    \/ \E d \in 0..1 : SwlLoggerByte(d)
    \/ SwlLoggerEnd
    \/ SwlDrain

SpecLength == InitLength /\ [][NextLength]_vars

-----------------------------------------------------------------------------
(* The folder loops of the sender scripts in sentinel mode: the images of  *)
(* the input folder are sent one after the other over the same port, each  *)
(* transfer being one call of the sentinel read loop above.                *)
(*   sws   send_images_uart.process_folder (args.mode = 'sentinel')        *)
(*   sars  send_and_receive.main                                           *)
(* An image is named by a number, and the device answers image k with the  *)
(* byte k followed by the sentinel, at its own pace.                       *)

\* The listing of the folder in descending order.
sorted_reversed(S) ==
    LET RECURSIVE down(_)
        down(T) == IF T = {} THEN <<>>
                   ELSE LET m == CHOOSE x \in T : \A y \in T : y <= x
                        IN  <<m>> \o down(T \ {m})
    IN  down(S)

\* sorted([p for p in input_dir.iterdir() if ...])
sorted(S) ==
    LET RECURSIVE up(_)
        up(T) == IF T = {} THEN <<>>
                 ELSE <<Min(T)>> \o up(T \ {Min(T)})
    IN  up(S)

\* The device's response to the payload of image k.
Reply(k) == <<k>> \o SENTINEL_DEFAULT

\* The image files an input folder may hold.
Folders == SUBSET (1..MaxImages)

\* The row a transfer leaves: the output file of a success, or the failure.
Result(name, success, data) ==
    [name |-> name, success |-> success, data |-> data]

\* The port has been opened; no image has been sent.
InitFolder ==
    /\ all_data = <<>>
    /\ recv_count = 0
    /\ device = "sending"
    /\ pc = "next"
    /\ script \in SentinelScripts
    /\ start_offset = 0
    /\ ret = None
    /\ now = 0
    /\ last_recv_time = 0
    /\ reads = <<>>
    /\ entry = None
    /\ line = <<>>
    /\ stream = <<>>
    /\ window = <<>>
    /\ LengthIdle
    /\ \E folder \in Folders : images = sorted(folder)
    /\ idx = 1
    /\ sent = <<>>
    /\ results = <<>>
    /\ stop_on_error \in BOOLEAN
    /\ PerfIdle

\* The next image is loaded and its payload written and flushed; the device
\* will answer it.  The read loop of the transfer starts.
FolderWrite ==
    /\ pc = "next"
    /\ idx <= Len(images)
    /\ sent' = Append(sent, images[idx])
    /\ stream' = stream \o Reply(images[idx])
    /\ pc' = "reading"
    /\ all_data' = <<>>
    /\ window' = <<>>
    /\ now' = 0
    /\ ret' = None
    /\ UNCHANGED <<recv_count, device, script, start_offset, last_recv_time,
                 reads, entry, line, length_vars, images, idx, results,
                 stop_on_error,
                 perf_vars>>

\* load_image_bytes raises: process_folder records the failure (after
\* reading whatever waits in the port) and goes on or breaks;
\* send_and_receive.main, which loads outside its try, ends.
FolderLoadFails ==
    /\ pc = "next"
    /\ idx <= Len(images)
    /\ IF script = "sws"
       THEN /\ line' = <<>>
            /\ results' = Append(results, Result(images[idx], FALSE, <<>>))
            /\ pc' = IF stop_on_error THEN "done" ELSE "next"
            /\ idx' = idx + 1
       ELSE /\ pc' = "done"
            /\ UNCHANGED <<line, results, idx>>
    /\ UNCHANGED <<all_data, recv_count, device, script, start_offset, ret,
                 now, last_recv_time, reads, entry, stream, window,
                 length_vars, images, sent, stop_on_error,
                 perf_vars>>

\* The transfer returned the response: it is saved as the output of the
\* image, and the loop goes to the next image.
FolderSave ==
    /\ pc = "returned"
    /\ results' = Append(results, Result(images[idx], TRUE, ret))
    /\ idx' = idx + 1
    /\ pc' = "next"
    /\ UNCHANGED <<all_data, recv_count, device, script, start_offset, ret,
                 now, last_recv_time, reads, entry, line, stream, window,
                 length_vars, images, sent, stop_on_error,
                 perf_vars>>

\* The transfer raised TimeoutError: process_folder reads the bytes waiting
\* in the port (sender.ser.read(avail)), writes the failure row and breaks
\* if args.stop_on_error; send_and_receive.main logs the error and
\* continues.
FolderFail ==
    /\ pc = "raised"
    /\ results' = Append(results, Result(images[idx], FALSE, <<>>))
    /\ idx' = idx + 1
    /\ IF script = "sws"
       THEN /\ line' = <<>>
            /\ pc' = IF stop_on_error THEN "done" ELSE "next"
       ELSE /\ pc' = "next"
            /\ UNCHANGED line
    /\ UNCHANGED <<all_data, recv_count, device, script, start_offset, ret,
                 now, last_recv_time, reads, entry, stream, window,
                 length_vars, images, sent, stop_on_error,
                 perf_vars>>

\* The loop is over: sender.close().
FolderEnd ==
    /\ pc = "next"
    /\ idx > Len(images)
    /\ pc' = "done"
    /\ UNCHANGED <<all_data, recv_count, device, script, start_offset, ret,
                 now, last_recv_time, reads, entry, link>>

NextFolder ==
    \/ FolderWrite
    \/ FolderLoadFails
    \/ FolderSave
    \/ FolderFail
    \/ FolderEnd
    \/ DeviceEmit
    \/ SwsReadByte
    \/ SwsReadTimeout
    \/ \E d \in 0..1 : SarsReadByte(d)
    \/ SarsReadEmpty
    \/ SarsDeadline

SpecFolder == InitFolder /\ [][NextFolder]_vars

-----------------------------------------------------------------------------
(* Streaming log reception of python_correct: the frame is read from the   *)
(* port field by field, and the CSV is written once the footer has been    *)
(* read.                                                                   *)
(*   rpl  python_correct.receive_performance_logs                          *)

\* A Python bool.
Bool(b) == [bool |-> b]

\* The CSV line of entry i: the index, the busy flags as int(...), the FIFO
\* loads and the dividers.
csv_row(i, e) ==
    <<i,
      IF e.core0_busy THEN 1 ELSE 0, IF e.core1_busy THEN 1 ELSE 0,
      IF e.core2_busy THEN 1 ELSE 0, IF e.core3_busy THEN 1 ELSE 0,
      e.fifo1_load, e.fifo2_load, e.fifo3_load,
      e.core0_divider, e.core1_divider, e.core2_divider, e.core3_divider>>

\* The file written by the CSV block, with every entry but the last.
write_csv_short(es) == [rows |-> [i \in 1..(Len(es) - 1) |-> csv_row(i - 1, es[i])]]

\* The file written by the CSV block: one line per entry after the header
\* line.
write_csv(es) == [rows |-> [i \in 1..Len(es) |-> csv_row(i - 1, es[i])]]

\* The bytes of a sequence of words, in order.
RECURSIVE Flatten(_)
Flatten(ws) ==
    IF ws = <<>> THEN <<>> ELSE Head(ws) \o Flatten(Tail(ws))

\* The entry words a device puts in a frame.
FrameWords == {DEFAULT_ENTRY, <<0, 0, 0, 4>>}

\* The well-formed frames of up to MaxCount entries.
Frames ==
    UNION {{LOG_HEADER \o U16(n) \o Flatten(ws) \o END_FOOTER :
                ws \in [1..n -> FrameWords]} : n \in 0..MaxCount}

\* What the device may send after the image: a frame, a frame cut short, a
\* frame with a wrong header or footer byte, a frame with bytes behind it.
LogStreams ==
    LET cut    == UNION {{SubSeq(f, 1, k) : k \in 0..Len(f)} : f \in Frames}
        badhdr == {<<76, 79, 71, 59>> \o SubSeq(f, 5, Len(f)) : f \in Frames}
        badend == {SubSeq(f, 1, Len(f) - 1) \o <<13>> : f \in Frames}
        more   == {f \o <<0>> : f \in Frames}
    IN  cut \cup badhdr \cup badend \cup more

\* The call has started: start_time = time.time(), header = bytearray().
InitLogs ==
    /\ all_data = <<>>
    /\ recv_count = 0
    /\ device = "sending"
    /\ pc = "header"
    /\ script = "rpl"
    /\ start_offset = 0
    /\ ret = None
    /\ now = 0
    /\ last_recv_time = 0
    /\ reads = <<>>
    /\ entry = None
    /\ line = <<>>
    /\ stream \in LogStreams
    /\ window = <<>>
    /\ LengthIdle
    /\ FolderIdle
    /\ PerfIdle

\* return False.
ReturnFalse ==
    /\ pc' = "returned"
    /\ ret' = Bool(FALSE)

\* The header loop, a pass past the deadline: return False.
RplHeaderTimeout ==
    /\ pc = "header"
    /\ len(header) < 4
    /\ now > timeout
    /\ ReturnFalse
    /\ UNCHANGED <<all_data, recv_count, device, script, start_offset,
                 now, last_recv_time, reads, entry, link>>

\* Time passes at one rate for main and the receiver thread python_correct
\* runs beside it: the clock does not move past
\* the instant at which a ser.read of the receiver thread times out while
\* that read has not returned.
TimeMayPass == ~(recv_pc = "reading" /\ now >= read_deadline)

\* The header loop, a pass within the deadline: data = ser.read(1) (b
\* here), which takes a tick when it times out.
RplHeaderRead ==
    /\ pc = "header"
    /\ len(header) < 4
    /\ ~(now > timeout)
    /\ LET b == ser_read(line, 1)
       IN  /\ Read(b, FALSE)
           /\ header' = header \o b
           /\ b = <<>> => TimeMayPass
           /\ now' = IF b = <<>> THEN now + 1 ELSE now
    /\ UNCHANGED <<all_data, script, start_offset, ret, last_recv_time, entry,
                 pc, window, length_vars, folder_vars,
                 entry_count, log_entries, perf_csv, log_data, thread_vars>>

\* The header is complete: it is compared with b'LOG:'; then count_bytes =
\* ser.read(2) and entry_count = struct.unpack('>H', count_bytes)[0].
RplReadCount ==
    /\ pc = "header"
    /\ ~(len(header) < 4)
    /\ IF header # LOG_HEADER
       THEN /\ ReturnFalse
            /\ UNCHANGED <<line, reads, device, stream, recv_count, entry_count>>
       ELSE LET count_bytes == ser_read(line, 2)
            IN  /\ Read(count_bytes, FALSE)
                /\ IF len(count_bytes) # 2
                   THEN /\ ReturnFalse
                        /\ UNCHANGED entry_count
                   ELSE /\ entry_count' = BytesValue(count_bytes)
                        /\ pc' = "entries"
                        /\ UNCHANGED ret
    /\ UNCHANGED <<all_data, script, start_offset, now, last_recv_time, entry,
                 window, length_vars, folder_vars,
                 header, log_entries, perf_csv, log_data, thread_vars>>

\* A pass of the entry loop: entry_bytes = ser.read(4), parsed and appended
\* when complete.
RplReadEntry ==
    /\ pc = "entries"
    /\ len(log_entries) < entry_count
    /\ LET entry_bytes == ser_read(line, 4)
       IN  /\ Read(entry_bytes, FALSE)
           /\ IF len(entry_bytes) # 4
              THEN /\ ReturnFalse
                   /\ UNCHANGED log_entries
              ELSE /\ log_entries' = Append(log_entries, pc_parse_log_entry(entry_bytes))
                   /\ UNCHANGED <<pc, ret>>
    /\ UNCHANGED <<all_data, script, start_offset, now, last_recv_time, entry,
                 window, length_vars, folder_vars,
                 header, entry_count, perf_csv, log_data, thread_vars>>

\* The entry loop is over: footer = ser.read(4); on b'END\n' the CSV is
\* written and True returned.
RplReadFooter ==
    /\ pc = "entries"
    /\ ~(len(log_entries) < entry_count)
    /\ LET footer == ser_read(line, 4)
       IN  /\ Read(footer, FALSE)
           /\ IF footer # END_FOOTER
              THEN /\ ReturnFalse
                   /\ UNCHANGED perf_csv
              ELSE /\ perf_csv' = write_csv(log_entries)
                   /\ pc' = "returned"
                   /\ ret' = Bool(TRUE)
    /\ UNCHANGED <<all_data, script, start_offset, now, last_recv_time, entry,
                 window, length_vars, folder_vars,
                 header, entry_count, log_entries, log_data, thread_vars>>

NextLogs ==
    \/ DeviceEmit
    \/ RplHeaderTimeout
    \/ RplHeaderRead
    \/ RplReadCount
    \/ RplReadEntry
    \/ RplReadFooter

SpecLogs == InitLogs /\ [][NextLogs]_vars

-----------------------------------------------------------------------------
(* Reconstruction of the grayscale image from the received bytes, as each  *)
(* script does it (the image is OUT_WIDTH x OUT_HEIGHT, scaled down).      *)
(*   cr   complete_receiver.extract_image                                  *)
(*   et   extended_test.test (save the received image)                     *)
(*   ril  receive_image_and_logs.save_image                                *)
(*   pc   python_correct.reconstruct_image (grayscale)                     *)

\* The number of image bytes receive_image_and_logs and extended_test take
\* from the buffer (4094 for the 64x64 image).
IMAGE_BYTES == OUT_WIDTH * OUT_HEIGHT - 2

\* np.frombuffer(image_data, dtype=np.uint8).reshape((height, width)) and
\* the save: the pixel buffer, and whether the reshape succeeded.
reshape(image_data, height, width) ==
    [pixels |-> image_data, reshaped |-> len(image_data) = height * width]

\* complete_receiver.extract_image and its reshape.
cr_reconstruct(data) ==
    LET image_data == extract_image(data, OUT_WIDTH * OUT_HEIGHT)
    IN  IF len(data) = 0 THEN None ELSE reshape(image_data, OUT_HEIGHT, OUT_WIDTH)

\* The literal b'\\x00\\x00' of extended_test.py: backslash, 'x', '0', '0',
\* twice.
ET_PAD == <<92, 120, 48, 48, 92, 120, 48, 48>>

\* extended_test: img_data = all_data[:IMAGE_BYTES], padded and reshaped,
\* when at least IMAGE_BYTES bytes were received.
et_reconstruct(data) ==
    IF len(data) >= IMAGE_BYTES
    THEN reshape(Slice(data, 0, IMAGE_BYTES) \o ET_PAD, OUT_HEIGHT, OUT_WIDTH)
    ELSE None

\* receive_image_and_logs.save_image: False (no image) on fewer than
\* IMAGE_BYTES bytes, else data[:IMAGE_BYTES] + b'\x00\x00' reshaped.
ril_save_image(data) ==
    IF len(data) < IMAGE_BYTES
    THEN None
    ELSE reshape(Slice(data, 0, IMAGE_BYTES) \o <<0, 0>>, OUT_HEIGHT, OUT_WIDTH)

\* python_correct.reconstruct_image with grayscale=True:
\* Image.frombytes('L', (width, height), data[:expected]) after padding.
pc_reconstruct_image(data, width, height) ==
    LET expected == width * height
        padded   == IF len(data) < expected
                    THEN data \o Zeros(expected - len(data))
                    ELSE data
    IN  reshape(Slice(padded, 0, expected), height, width)

\* The values of the received bytes.
PixelBytes == {0, 9}

\* The received buffers: shorter than the image, the image, the image and
\* bytes after it.
ImageBuffers ==
    UNION {[1..n -> PixelBytes] : n \in 0..(OUT_WIDTH * OUT_HEIGHT + 2)}

ImageScripts == {"cr", "et", "ril", "pc"}

\* Reception has ended with some buffer.
InitImage ==
    /\ all_data \in ImageBuffers
    /\ recv_count = 0
    /\ device = "silent"
    /\ pc = "received"
    /\ script = "none"
    /\ start_offset = 0
    /\ ret = None
    /\ now = 0
    /\ last_recv_time = 0
    /\ reads = <<>>
    /\ entry = None
    /\ LinkIdle

\* A script reconstructs the image from the buffer.
ReconstructImage(s) ==
    /\ pc = "received"
    /\ pc' = "done"
    /\ script' = s
    /\ ret' = CASE s = "cr"  -> cr_reconstruct(all_data)
                [] s = "et"  -> et_reconstruct(all_data)
                [] s = "ril" -> ril_save_image(all_data)
                [] s = "pc"  -> pc_reconstruct_image(all_data, OUT_WIDTH, OUT_HEIGHT)
    /\ UNCHANGED <<all_data, recv_count, device, start_offset,
                 now, last_recv_time, reads, entry, link>>

NextImage == \E s \in ImageScripts : ReconstructImage(s)

SpecImage == InitImage /\ [][NextImage]_vars

-----------------------------------------------------------------------------
(* The scripts that receive the image and then the log frame from the same *)
(* port: python_correct and send_and_receive_64x64_gray run                *)
(* receiver_thread_fn beside main, receive_logs_then_image reads the image *)
(* and the logs in two loops of main.                                      *)
(*   pc    python_correct.main          gray  send_and_receive_64x64_gray  *)
(*   rlt   receive_logs_then_image.main                                    *)

\* The wait of main for the receiver ('+ 10.0'), in clock ticks.
wait_deadline == 2
\* TIMEOUT_IDLE, in clock ticks.
TIMEOUT_IDLE == 2
\* log_timeout of receive_logs_then_image, in clock ticks.
log_timeout == 2

\* expected = OUT_WIDTH * OUT_HEIGHT * 1, and IMAGE_SIZE (4096 for 64x64).
IMAGE_SIZE == OUT_WIDTH * OUT_HEIGHT

\* The size of ser.read(4096) in receiver_thread_fn: one whole image.
READ_SIZE == OUT_WIDTH * OUT_HEIGHT

MainScripts == {"pc", "gray", "rlt"}

\* What the device sends: the image bytes, then a log frame (or nothing).
MainStreams ==
    {[i \in 1..IMAGE_SIZE |-> 9] \o f : f \in Frames \cup {<<>>}}

\* The port is open, the payload has been sent and, in python_correct and
\* send_and_receive_64x64_gray, the receiver thread has been started.
InitMain ==
    /\ all_data = <<>>
    /\ recv_count = 0
    /\ device = "sending"
    /\ script \in MainScripts
    /\ pc = IF script = "rlt" THEN "image" ELSE "wait"
    /\ start_offset = 0
    /\ ret = None
    /\ now = 0
    /\ last_recv_time = 0
    /\ reads = <<>>
    /\ entry = None
    /\ line = <<>>
    /\ stream \in MainStreams
    /\ window = <<>>
    /\ LengthIdle
    /\ FolderIdle
    /\ header = <<>>
    /\ entry_count = 0
    /\ log_entries = <<>>
    /\ perf_csv = None
    /\ log_data = <<>>
    /\ recv_pc = IF script = "rlt" THEN "none" ELSE "loop"
    /\ stop_event = FALSE
    /\ done_event = FALSE
    /\ out_bin = <<>>
    /\ port_open = TRUE
    /\ read_deadline = 0

\* receiver_thread_fn, the loop test: 'while not stop_event.is_set()' and
\* the call of ser.read(4096), which times out one tick (0.05 s) later; when
\* the loop is left the files are closed and done_event is set.
RecvLoop ==
    /\ recv_pc = "loop"
    /\ IF stop_event
       THEN /\ recv_pc' = "done"
            /\ done_event' = TRUE
            /\ UNCHANGED read_deadline
       ELSE /\ recv_pc' = "reading"
            /\ read_deadline' = now + 1
            /\ UNCHANGED done_event
    /\ UNCHANGED <<all_data, recv_count, device, pc, script, start_offset, ret,
                 now, last_recv_time, reads, entry, line, stream, window,
                 length_vars, folder_vars, logs_vars,
                 stop_event, out_bin, port_open>>

\* receiver_thread_fn, the rest of a pass: ser.read(4096) returns when 4096
\* bytes are there or at its timeout, with the bytes waiting then (an
\* exception when the port has been closed); the bytes are written and
\* counted, and the break tests are made.
RecvRead ==
    /\ recv_pc = "reading"
    /\ IF ~port_open
       THEN /\ recv_pc' = "done"
            /\ done_event' = TRUE
            /\ UNCHANGED <<line, buf, out_bin, last_recv_time>>
       ELSE LET data == ser_read(line, READ_SIZE)
                expected_bytes == IMAGE_SIZE
            IN  /\ len(line) >= READ_SIZE \/ now >= read_deadline
                /\ line' = Slice(line, len(data), len(line))
                /\ buf' = buf \o data
                /\ out_bin' = out_bin \o data
                /\ last_recv_time' = IF data # <<>> THEN now ELSE last_recv_time
                /\ IF \/ data = <<>> /\ len(buf) >= expected_bytes
                      \/ data = <<>> /\ (now - last_recv_time) > TIMEOUT_IDLE
                                     /\ len(buf) > 0
                      \/ len(buf') >= expected_bytes
                   THEN /\ recv_pc' = "done"
                        /\ done_event' = TRUE
                   ELSE /\ recv_pc' = "loop"
                        /\ UNCHANGED done_event
    /\ UNCHANGED <<all_data, recv_count, device, pc, script, start_offset, ret,
                 now, reads, entry, stream, window,
                 expected_len, image_bytes, found_first, resp_len,
                 folder_vars, logs_vars, stop_event, port_open, read_deadline>>

\* main, a pass of 'while not done_event.is_set() and time.time() <
\* wait_deadline': time.sleep(0.05); or the end of the loop.
MainWait ==
    /\ pc = "wait"
    /\ IF ~done_event /\ now < wait_deadline
       THEN /\ TimeMayPass
            /\ now' = now + 1
            /\ UNCHANGED pc
       ELSE /\ pc' = "stop"
            /\ UNCHANGED now
    /\ UNCHANGED <<all_data, recv_count, device, script, start_offset, ret,
                 last_recv_time, reads, entry, line, stream, window,
                 length_vars, folder_vars, perf_vars>>

\* main: stop_event.set(); time.sleep(0.05).
MainStop ==
    /\ pc = "stop"
    /\ stop_event' = TRUE
    /\ TimeMayPass
    /\ now' = now + 1
    /\ pc' = "stopped"
    /\ UNCHANGED <<all_data, recv_count, device, script, start_offset, ret,
                 last_recv_time, reads, entry, line, stream, window,
                 length_vars, folder_vars, logs_vars,
                 recv_pc, done_event, out_bin, port_open, read_deadline>>

\* python_correct.main: reconstruct_image(out_bin, ...), then the call of
\* receive_performance_logs, whose clock starts at start_time = time.time().
PcReconstruct ==
    /\ pc = "stopped"
    /\ script = "pc"
    /\ image_bytes' = pc_reconstruct_image(out_bin, OUT_WIDTH, OUT_HEIGHT)
    /\ pc' = "header"
    /\ now' = 0
    /\ last_recv_time' = last_recv_time - now
    /\ read_deadline' = read_deadline - now
    /\ UNCHANGED <<all_data, recv_count, device, script, start_offset, ret,
                 reads, entry, line, stream, window,
                 expected_len, buf, found_first, resp_len,
                 folder_vars, logs_vars,
                 recv_pc, stop_event, done_event, out_bin, port_open>>

\* python_correct.main, after receive_performance_logs: ser.close().
PcClose ==
    /\ pc = "returned"
    /\ script = "pc"
    /\ port_open
    /\ port_open' = FALSE
    /\ UNCHANGED <<all_data, recv_count, device, pc, script, start_offset, ret,
                 now, last_recv_time, reads, entry, line, stream, window,
                 length_vars, folder_vars, logs_vars,
                 recv_pc, stop_event, done_event, out_bin, read_deadline>>

\* send_and_receive_64x64_gray.main: ser.close().
GrayClose ==
    /\ pc = "stopped"
    /\ script = "gray"
    /\ port_open' = FALSE
    /\ pc' = "closed"
    /\ UNCHANGED <<all_data, recv_count, device, script, start_offset, ret,
                 now, last_recv_time, reads, entry, line, stream, window,
                 length_vars, folder_vars, logs_vars,
                 recv_pc, stop_event, done_event, out_bin, read_deadline>>

\* send_and_receive_64x64_gray.main: reconstruct_image(out_bin, ...).
GrayReconstruct ==
    /\ pc = "closed"
    /\ script = "gray"
    /\ image_bytes' = pc_reconstruct_image(out_bin, OUT_WIDTH, OUT_HEIGHT)
    /\ pc' = "returned"
    /\ UNCHANGED <<all_data, recv_count, device, script, start_offset, ret,
                 now, last_recv_time, reads, entry, line, stream, window,
                 expected_len, buf, found_first, resp_len,
                 folder_vars, perf_vars>>

\* receive_logs_then_image.main, a pass of the image loop: all waiting bytes
\* are read; the loop ends at IMAGE_SIZE bytes or after idle_timeout ticks
\* without data; else time.sleep(0.01).
RltImagePass ==
    /\ pc = "image"
    /\ now < max_timeout
    /\ IF line # <<>>
       THEN /\ all_data' = all_data \o line
            /\ line' = <<>>
            /\ last_recv_time' = now
            /\ IF len(all_data') >= IMAGE_SIZE
               THEN pc' = "save" /\ UNCHANGED now
               ELSE now' = now + 1 /\ UNCHANGED pc
       ELSE /\ UNCHANGED <<all_data, line, last_recv_time>>
            /\ IF (now - last_recv_time) > idle_timeout /\ len(all_data) > 0
               THEN pc' = "save" /\ UNCHANGED now
               ELSE now' = now + 1 /\ UNCHANGED pc
    /\ UNCHANGED <<recv_count, device, script, start_offset, ret,
                 reads, entry, stream, window,
                 length_vars, folder_vars, perf_vars>>

\* The image loop is over (its deadline passed, or a break): the first
\* IMAGE_SIZE bytes, zero-padded when short, are saved as the image; then
\* log_data = bytearray() and log_start_time = time.time().
RltSaveImage ==
    /\ \/ pc = "image" /\ ~(now < max_timeout)
       \/ pc = "save"
    /\ image_bytes' =
           IF len(all_data) >= IMAGE_SIZE
           THEN reshape(Slice(all_data, 0, IMAGE_SIZE), OUT_HEIGHT, OUT_WIDTH)
           ELSE IF len(all_data) > 0
           THEN reshape(all_data \o Zeros(IMAGE_SIZE - len(all_data)),
                        OUT_HEIGHT, OUT_WIDTH)
           ELSE image_bytes
    /\ log_data' = <<>>
    /\ now' = 0
    /\ pc' = "logs"
    /\ UNCHANGED <<all_data, recv_count, device, script, start_offset, ret,
                 last_recv_time, reads, entry, line, stream, window,
                 expected_len, buf, found_first, resp_len, folder_vars,
                 header, entry_count, log_entries, perf_csv, thread_vars>>

\* The entries main parses from log_data (lines 149-175): none unless both
\* markers and the count are there.
rlt_main_entries(data) ==
    LET log_start == Find(data, LOG_HEADER, 0)
        end_pos   == Find(data, END_FOOTER, log_start)
    IN  IF len(data) > 0 /\ log_start >= 0 /\ end_pos >= 0
           /\ log_start + 6 <= len(data)
        THEN LET count == IntOf(from_bytes_big(Slice(data, log_start + 4,
                                                     log_start + 6)))
             IN  [entries |-> rlt_entries(data, log_start + 6, count, 0, <<>>)]
        ELSE None

\* A pass of the log loop: all waiting bytes join log_data and the loop
\* ends when both markers are in it; else time.sleep(0.01).  When the loop
\* has ended, log_data is parsed.
RltLogPass ==
    /\ pc = "logs"
    /\ IF now < log_timeout
       THEN /\ log_data' = log_data \o line
            /\ line' = <<>>
            /\ IF /\ line # <<>>
                  /\ Find(log_data', LOG_HEADER, 0) >= 0
                  /\ Find(log_data', END_FOOTER, 0) >= 0
               THEN /\ pc' = "returned"
                    /\ ret' = rlt_main_entries(log_data')
                    /\ UNCHANGED now
               ELSE /\ now' = now + 1
                    /\ UNCHANGED <<pc, ret>>
       ELSE /\ pc' = "returned"
            /\ ret' = rlt_main_entries(log_data)
            /\ UNCHANGED <<log_data, line, now>>
    /\ UNCHANGED <<all_data, recv_count, device, script, start_offset,
                 last_recv_time, reads, entry, stream, window,
                 length_vars, folder_vars,
                 header, entry_count, log_entries, perf_csv, thread_vars>>

NextMain ==
    \/ DeviceEmit
    \/ RecvLoop
    \/ RecvRead
    \/ MainWait
    \/ MainStop
    \/ PcReconstruct
    \/ RplHeaderTimeout
    \/ RplHeaderRead
    \/ RplReadCount
    \/ RplReadEntry
    \/ RplReadFooter
    \/ PcClose
    \/ GrayClose
    \/ GrayReconstruct
    \/ RltImagePass
    \/ RltSaveImage
    \/ RltLogPass

SpecMain == InitMain /\ [][NextMain]_vars

-----------------------------------------------------------------------------
(* The wire format, stated on the buffer itself (0-based offsets).         *)

\* The buffer a script's parser was given, and the offset it searched from.
InputData ==
    IF script \in {"ril", "slt", "et"}
    THEN SubSeq(all_data, start_offset + 1, Len(all_data))
    ELSE all_data

SearchFrom == IF script \in {"cr", "rlt"} THEN start_offset ELSE 0

HeaderAt(d, i) ==
    /\ i >= 0
    /\ i + 4 <= Len(d)
    /\ d[i + 1] = 76 /\ d[i + 2] = 79 /\ d[i + 3] = 71 /\ d[i + 4] = 58

FooterAt(d, i) ==
    /\ i >= 0
    /\ i + 4 <= Len(d)
    /\ d[i + 1] = 69 /\ d[i + 2] = 78 /\ d[i + 3] = 68 /\ d[i + 4] = 10

\* h is the first header at or after offset from.
FirstHeader(d, from, h) ==
    /\ h >= from
    /\ HeaderAt(d, h)
    /\ \A i \in from..(h - 1) : ~HeaderAt(d, i)

NoHeader(d, from) == \A i \in from..(Len(d) - 4) : ~HeaderAt(d, i)

FooterFrom(d, h) == \E f \in h..(Len(d) - 4) : FooterAt(d, f)

\* The count declared by the header at h (two bytes, most significant first).
DeclaredCount(d, h) == d[h + 5] * 256 + d[h + 6]

\* The 32-bit word at offset p (four bytes, most significant first).
WordAt(d, p) == Wide(d[p + 1] * 256 + d[p + 2], d[p + 3] * 256 + d[p + 4])

\* The entries fully present after a header at h declaring n entries.
Readable(d, h, n) ==
    LET avail == (Len(d) - h - 6) \div 4
    IN  IF n < avail THEN n ELSE avail

\* The 32-bit words of the entries a parser returned.
Raws(entries) == [i \in 1..Len(entries) |-> entries[i].raw]

\* The entries of the script that ran, and its decoder applied to a word.
NoError == script = "cr" \/ ret[2] = None

Entries ==
    IF script = "cr" THEN ret
    ELSE IF ret[2] = None THEN ret[1].entries ELSE <<>>

Decode(w) ==
    CASE script = "cr"  -> cr_decode_log_entry(w)
      [] script = "ril" -> ril_decode_log_entry(w)
      [] script = "rlt" -> rlt_decode_log_entry(w)

Parsers == {"cr", "ril", "rlt"}

\* A parser has run with the header search starting at the buffer's start.
ParsedFromStart == pc = "done" /\ script \in Parsers /\ SearchFrom = 0

\* 'LOG:' + N as 2 bytes + N words + 'END\n', and nothing else.
IsExactFrame(d) ==
    /\ Len(d) >= 10
    /\ HeaderAt(d, 0)
    /\ Len(d) = 10 + 4 * DeclaredCount(d, 0)
    /\ FooterAt(d, 6 + 4 * DeclaredCount(d, 0))

\* An exact frame whose trailing 'END\n' has been removed.
IsFrameWithoutFooter(d) ==
    /\ Len(d) >= 6
    /\ HeaderAt(d, 0)
    /\ Len(d) = 6 + 4 * DeclaredCount(d, 0)

-----------------------------------------------------------------------------
(* Claims.                                                                 *)

\* C1: an exact frame 'LOG:' + N + N words + 'END\n' parses with no error,
\* count = N, complete = true and exactly N entries in buffer order, entry i
\* carrying raw = word i and the decoder's fields of word i.
C1_ExactFrame ==
    (ParsedFromStart /\ IsExactFrame(InputData)) =>
        LET d == InputData
            N == DeclaredCount(d, 0)
        IN  /\ NoError
            /\ Len(Entries) = N
            /\ \A i \in 1..N :
                  /\ Entries[i].raw = WordAt(d, 6 + 4 * (i - 1))
                  /\ Entries[i] = Decode(WordAt(d, 6 + 4 * (i - 1)))
            /\ script # "cr" => ret[1].count = N
            /\ script = "ril" => ret[1].complete

C1_Witness ==
    /\ ParsedFromStart /\ script = "ril" /\ IsExactFrame(InputData)
    /\ ret[1].count = 2 /\ ret[1].complete
    /\ Len(ret[1].entries) = 2
    /\ ret[1].entries[1].raw = Wide(57005, 48879)
    /\ ret[1].entries[2].raw # ret[1].entries[1].raw

\* C2: with the header at h and the count readable, every parser returns
\* exactly min(declared_count, floor((len - h - 6) / 4)) entries, entry i
\* decoded from the 4 bytes at h + 6 + 4i; a partly received entry is dropped,
\* and complete is false when fewer than declared_count entries came back.
C2_Truncation ==
    (pc = "done" /\ script \in Parsers) =>
        \A h \in SearchFrom..(Len(InputData) - 6) :
            FirstHeader(InputData, SearchFrom, h) =>
                LET d == InputData
                    N == DeclaredCount(d, h)
                    k == Readable(d, h, N)
                IN  /\ NoError
                    /\ Len(Entries) = k
                    /\ \A i \in 1..k :
                          Entries[i] = Decode(WordAt(d, h + 6 + 4 * (i - 1)))
                    /\ (script = "ril" /\ k < N) => ~ret[1].complete

\* Two entries declared, one returned: the buffer ends inside the second.
C2_Witness ==
    /\ pc = "done" /\ script = "ril"
    /\ \E h \in 0..(Len(InputData) - 6) :
          /\ FirstHeader(InputData, 0, h)
          /\ DeclaredCount(InputData, h) = 2
          /\ Len(InputData) = h + 6 + 4 + 2
    /\ Len(ret[1].entries) = 1
    /\ ~ret[1].complete

\* C3: a well-formed frame whose trailing 'END\n' was removed still yields
\* all N entries and no error, with complete = false.
C3_MissingFooter ==
    (ParsedFromStart /\ IsFrameWithoutFooter(InputData)) =>
        LET d == InputData
            N == DeclaredCount(d, 0)
        IN  /\ NoError
            /\ Len(Entries) = N
            /\ \A i \in 1..N : Entries[i].raw = WordAt(d, 6 + 4 * (i - 1))
            /\ script = "ril" => ~ret[1].complete

C3_Witness ==
    /\ ParsedFromStart /\ script = "ril" /\ IsFrameWithoutFooter(InputData)
    /\ ret[2] = None
    /\ ret[1].count = 2 /\ Len(ret[1].entries) = 2
    /\ ~ret[1].complete

\* C4 as stated: complete is true iff the footer is found at or after the
\* header offset and the number of entries returned equals declared_count.
C4_CompleteIffFooterAndAllEntries ==
    (pc = "done" /\ script = "ril" /\ ret[2] = None) =>
        \A h \in 0..(Len(InputData) - 6) :
            FirstHeader(InputData, 0, h) =>
                (ret[1].complete <=>
                    /\ FooterFrom(InputData, h)
                    /\ Len(ret[1].entries) = DeclaredCount(InputData, h))

\* C4 amended: complete is true iff the footer is found at or after the
\* header offset and the buffer holds, from the header on, at least the
\* expected total size 4 + 2 + 4 * declared_count + 4.
C4_CompleteIffFooterAndSize ==
    (pc = "done" /\ script = "ril" /\ ret[2] = None) =>
        \A h \in 0..(Len(InputData) - 6) :
            FirstHeader(InputData, 0, h) =>
                (ret[1].complete <=>
                    /\ FooterFrom(InputData, h)
                    /\ Len(InputData) - h >= 10 + 4 * DeclaredCount(InputData, h))

\* The footer bytes are found and every declared entry came back, yet the
\* buffer is shorter than the expected size and complete is false.
C4_Witness ==
    /\ pc = "done" /\ script = "ril" /\ ret[2] = None
    /\ ret[1].has_end
    /\ ret[1].count >= 1
    /\ Len(ret[1].entries) = ret[1].count
    /\ ret[1].actual_size < ret[1].expected_size
    /\ ~ret[1].complete

\* C5 as stated: complete is true iff all declared entries were fully
\* readable and the footer starts immediately after the last entry.
C5_CompleteIffFooterAdjacent ==
    (pc = "done" /\ script = "ril" /\ ret[2] = None) =>
        \A h \in 0..(Len(InputData) - 6) :
            FirstHeader(InputData, 0, h) =>
                LET N == DeclaredCount(InputData, h)
                IN  ret[1].complete <=>
                        /\ Len(InputData) >= h + 6 + 4 * N
                        /\ FooterAt(InputData, h + 6 + 4 * N)

\* C5 amended: complete is true iff all declared entries were fully readable,
\* at least 4 more bytes follow the last entry, and 'END\n' occurs at some
\* offset at or after the header; a footer immediately after the last entry
\* is sufficient for complete, not necessary.
C5_CompleteIffEntriesTailAndFooter ==
    (pc = "done" /\ script = "ril" /\ ret[2] = None) =>
        \A h \in 0..(Len(InputData) - 6) :
            FirstHeader(InputData, 0, h) =>
                LET N == DeclaredCount(InputData, h)
                    after == h + 6 + 4 * N
                IN  /\ ret[1].complete <=>
                          /\ Len(ret[1].entries) = N
                          /\ Len(InputData) >= after + 4
                          /\ \E f \in h..(Len(InputData) - 4) : FooterAt(InputData, f)
                    /\ FooterAt(InputData, after) => ret[1].complete

\* complete is true although a stray byte separates the last entry from
\* the footer.
C5_Witness ==
    /\ pc = "done" /\ script = "ril" /\ ret[2] = None
    /\ ret[1].complete
    /\ \E h \in 0..(Len(InputData) - 6) :
          /\ FirstHeader(InputData, 0, h)
          /\ ~FooterAt(InputData, h + 6 + 4 * DeclaredCount(InputData, h))
          /\ FooterAt(InputData, h + 6 + 4 * DeclaredCount(InputData, h) + 1)

\* C6: when 'LOG:' does not occur at or after the search offset, each parser
\* returns its no-header outcome (an error and no result, or the empty list):
\* no count, no entry.
C6_HeaderNotFound ==
    (pc = "done" /\ script \in Parsers /\ NoHeader(InputData, SearchFrom)) =>
        CASE script = "cr"  -> ret = <<>>
          [] script = "ril" -> ret = <<None, Str("No LOG: header found")>>
          [] script = "rlt" -> ret = <<None, Str("No LOG: header")>>

\* A whole frame with an entry lies before the search offset and none after.
C6_Witness ==
    /\ pc = "done" /\ script = "cr"
    /\ start_offset = Len(all_data)
    /\ IsExactFrame(all_data)
    /\ DeclaredCount(all_data, 0) >= 1
    /\ NoHeader(all_data, start_offset)
    /\ ret = <<>>

\* C7: with 'LOG:' found at h, every script that reads the count reports no
\* count and decodes no entry exactly when len(buffer) < h + 6; with exactly
\* 6 bytes from the marker the count is read and reported.
C7_TruncatedHeaderBoundary ==
    (pc = "done" /\ script \in {"cr", "ril", "rlt", "slt"}) =>
        \A h \in SearchFrom..(Len(InputData) - 4) :
            FirstHeader(InputData, SearchFrom, h) =>
                LET d == InputData
                    short == Len(d) < h + 6
                IN  CASE script = "cr" -> short => ret = <<>>
                      [] script = "ril" ->
                            /\ short <=> ret = <<None, Str("Incomplete log header")>>
                            /\ ~short => ret[2] = None /\ ret[1].count = DeclaredCount(d, h)
                      [] script = "rlt" ->
                            /\ short <=> ret = <<None, Str("Incomplete header")>>
                            /\ ~short => ret[2] = None /\ ret[1].count = DeclaredCount(d, h)
                      [] script = "slt" ->
                            /\ ret.log_pos = h
                            /\ short <=> ~ret.count_read
                            /\ ~short => ret.count = DeclaredCount(d, h)

\* C8: the header used is the one at the least index >= start_offset where
\* 'LOG:' occurs; an occurrence before start_offset is never used, so a call
\* with start_offset past a first frame parses the second frame when there
\* is one and returns the no-header outcome when there is none.
C8_HeaderLocation ==
    (pc = "done" /\ script \in {"cr", "rlt"}) =>
        /\ \A h \in start_offset..(Len(all_data) - 4) :
              FirstHeader(all_data, start_offset, h) =>
                  IF Len(all_data) < h + 6
                  THEN Entries = <<>> /\ (script = "rlt" => ret[1] = None)
                  ELSE LET N == DeclaredCount(all_data, h)
                           k == Readable(all_data, h, N)
                       IN  /\ NoError
                           /\ Raws(Entries) =
                                 [i \in 1..k |-> WordAt(all_data, h + 6 + 4 * (i - 1))]
                           /\ script = "rlt" =>
                                 ret[1].log_start = h /\ ret[1].count = N
        /\ NoHeader(all_data, start_offset) =>
              Entries = <<>> /\ (script = "rlt" => ret[1] = None)

\* A first frame lies before start_offset; the second frame is the one parsed.
C8_Witness ==
    /\ pc = "done" /\ script = "rlt"
    /\ start_offset >= 10
    /\ IsExactFrame(SubSeq(all_data, 1, start_offset))
    /\ ret[2] = None
    /\ ret[1].log_start >= start_offset
    /\ ret[1].count = 1
    /\ Len(ret[1].entries) = 1

\* C9 as stated: with a noise prefix P free of 'LOG:' before a frame buffer
\* F, parsing P + F from offset 0 yields the same count, entries, has_end /
\* complete flags and expected / actual sizes as parsing F alone; only the
\* header offset differs, by len(P).
C9_OnlyHeaderOffsetDiffers ==
    (pc = "done" /\ script \in {"ril", "rlt"} /\ SearchFrom = 0) =>
        \A h \in 0..(Len(InputData) - 4) :
            FirstHeader(InputData, 0, h) =>
                LET F == SubSeq(InputData, h + 1, Len(InputData))
                IN  IF script = "ril"
                    THEN ret = ril_parse_logs(F)
                    ELSE LET alone == rlt_parse_logs(F, 0)
                         IN  /\ ret[2] = alone[2]
                             /\ IF alone[2] = None
                                THEN ret[1] = [alone[1] EXCEPT !.log_start = @ + h]
                                ELSE ret[1] = None

\* C9 amended: parsing P + F from offset 0 yields the same count, entries,
\* has_end / complete flags and expected / actual sizes as parsing F alone;
\* the two positions reported, the header offset and the end position
\* log_end, are each larger by len(P).
C9_NoiseInvariance ==
    (pc = "done" /\ script \in {"ril", "rlt"} /\ SearchFrom = 0) =>
        \A h \in 0..(Len(InputData) - 4) :
            FirstHeader(InputData, 0, h) =>
                LET F == SubSeq(InputData, h + 1, Len(InputData))
                IN  IF script = "ril"
                    THEN ret = ril_parse_logs(F)
                    ELSE LET alone == rlt_parse_logs(F, 0)
                         IN  /\ ret[2] = alone[2]
                             /\ IF alone[2] = None
                                THEN ret[1] = [alone[1] EXCEPT !.log_start = @ + h,
                                                               !.log_end = @ + h]
                                ELSE ret[1] = None

\* Noise precedes a complete frame with an entry.
C9_Witness ==
    /\ pc = "done" /\ script = "rlt" /\ start_offset = 0
    /\ ~HeaderAt(all_data, 0)
    /\ ret[2] = None
    /\ ret[1].log_start > 0
    /\ Len(ret[1].entries) >= 1
    /\ ret[1].has_end
    /\ ret[1].log_end = Len(all_data)

\* C10: a header followed by the count bytes 00 00 parses to a valid outcome
\* with no entries that the caller can tell apart from the header-not-found
\* and truncated-header outcomes, and complete is true when 'END\n'
\* immediately follows the count field.
C10_ZeroCount ==
    (pc = "done" /\ script \in Parsers) =>
        \A h \in SearchFrom..(Len(InputData) - 6) :
            (FirstHeader(InputData, SearchFrom, h) /\ DeclaredCount(InputData, h) = 0) =>
                /\ NoError
                /\ Entries = <<>>
                /\ script = "cr" =>
                      /\ ret # extract_performance_logs(<<>>, 0)
                      /\ ret # extract_performance_logs(LOG_HEADER, 0)
                /\ script # "cr" => ret[1].count = 0
                /\ (script = "ril" /\ FooterAt(InputData, h + 6)) => ret[1].complete

-----------------------------------------------------------------------------
(* Diagnostics: footer position and sizes.                                 *)

\* The footer line of the script that ran.
FooterReport ==
    IF script = "cr" THEN cr_footer(all_data, start_offset) ELSE ret

\* C11: whenever a script reports the footer as found, the position reported
\* is an index at or after the header offset where the bytes 45 4E 44 0A
\* occur, and the footer is reported as not found only when no such
\* occurrence exists at or after the header offset.
C11_FooterDetection ==
    (pc = "done" /\ script \in {"cr", "et", "trr"}) =>
        \A h \in SearchFrom..(Len(InputData) - 4) :
            (FirstHeader(InputData, SearchFrom, h) /\ FooterReport.searched) =>
                LET p == FooterReport.end_pos
                IN  IF p >= 0
                    THEN p >= h /\ FooterAt(InputData, p)
                    ELSE ~FooterFrom(InputData, h)

\* C12: for every parsed header, expected_total_size is 4 + 2 + 4 *
\* declared_count + 4 and actual_available_size is len(buffer) -
\* header_offset, and every script that prints a complete / missing-bytes
\* verdict compares exactly these two: bytes before the header are not
\* counted as available.
C12_SizeDiagnostics ==
    (pc = "done" /\ script \in {"ril", "rlt", "et"}) =>
        \A h \in SearchFrom..(Len(InputData) - 6) :
            FirstHeader(InputData, SearchFrom, h) =>
                LET expected == 4 + 2 + 4 * DeclaredCount(InputData, h) + 4
                    actual == Len(InputData) - h
                IN  CASE script = "ril" ->
                            /\ ret[2] = None
                            /\ ret[1].expected_size = expected
                            /\ ret[1].actual_size = actual
                            /\ ret[1].complete <=> (actual >= expected /\ ret[1].has_end)
                      [] script = "rlt" ->
                            /\ ret[2] = None
                            /\ ret[1].expected_size = expected
                      [] script = "et" ->
                            /\ ret.count_read
                            /\ ret.expected_log_size = expected
                            /\ ret.extra_bytes = actual
                            /\ ret.complete <=> actual >= expected
                            /\ ret.missing = IF actual >= expected THEN 0
                                             ELSE expected - actual

-----------------------------------------------------------------------------
(* The entry codec.                                                        *)

\* Bit i (0 = least significant) of the word whose four bytes are d.
Bit(d, i) == (d[4 - (i \div 8)] \div (2 ^ (i % 8))) % 2

\* Bits [top:bottom] of that word, as a number.
RECURSIVE Bits(_, _, _)
Bits(d, top, bottom) ==
    IF top < bottom THEN 0
    ELSE Bit(d, bottom) + 2 * Bits(d, top, bottom + 1)

\* The value a decoded entry holds for a divider, whatever the key is called.
Divider(e, k) ==
    IF script = "ril"
    THEN CASE k = 0 -> e.core0_divider [] k = 1 -> e.core1_divider
           [] k = 2 -> e.core2_divider [] k = 3 -> e.core3_divider
    ELSE CASE k = 0 -> e.core0_div [] k = 1 -> e.core1_div
           [] k = 2 -> e.core2_div [] k = 3 -> e.core3_div

\* C13: for every 32-bit word w the three decode_log_entry return raw = w,
\* core_busy = bits [31:28], fifo1_load = [27:25], fifo2_load = [24:22],
\* fifo3_load = [21:19], the dividers of core0..core3 = [18:15], [14:11],
\* [10:7], [6:3], and rl_enabled = bit 2 where present; so every fifo load is
\* in 0..7 and every divider and core_busy in 0..15.
C13_FieldDecode ==
    (pc = "decoded" /\ script \in {"cr", "ril", "rlt"}) =>
        LET d == all_data
        IN  /\ ret.raw = WordAt(d, 0)
            /\ ret.core_busy = Bits(d, 31, 28)
            /\ ret.fifo1_load = Bits(d, 27, 25)
            /\ ret.fifo2_load = Bits(d, 24, 22)
            /\ ret.fifo3_load = Bits(d, 21, 19)
            /\ Divider(ret, 0) = Bits(d, 18, 15)
            /\ Divider(ret, 1) = Bits(d, 14, 11)
            /\ Divider(ret, 2) = Bits(d, 10, 7)
            /\ Divider(ret, 3) = Bits(d, 6, 3)
            /\ script = "cr" => ret.rl_enabled = Bit(d, 2)
            /\ {ret.fifo1_load, ret.fifo2_load, ret.fifo3_load} \subseteq 0..7
            /\ {ret.core_busy} \cup {Divider(ret, k) : k \in 0..3} \subseteq 0..15

\* The word 0xAA55AA55 decoded by receive_image_and_logs.
C13_Witness ==
    /\ pc = "decoded" /\ script = "ril"
    /\ all_data = <<170, 85, 170, 85>>
    /\ ret.raw = Wide(43605, 43605)
    /\ ret.core_busy = 10
    /\ <<ret.fifo1_load, ret.fifo2_load, ret.fifo3_load>> = <<5, 1, 2>>
    /\ <<ret.core0_divider, ret.core1_divider, ret.core2_divider, ret.core3_divider>>
          = <<11, 5, 4, 10>>

\* C14: in every decoder that exposes per-stage busy flags
\* (complete_receiver.decode_log_entry, python_correct.parse_log_entry),
\* core0_busy is bit 31 of the word and core3_busy is bit 28.
C14_BusyFlagOrder ==
    (pc = "decoded" /\ script \in {"cr", "pc"}) =>
        IF script = "cr"
        THEN /\ ret.core0_busy = Bit(all_data, 31)
             /\ ret.core3_busy = Bit(all_data, 28)
        ELSE /\ ret.core0_busy <=> Bit(all_data, 31) = 1
             /\ ret.core3_busy <=> Bit(all_data, 28) = 1

\* The fields of a TelemetryEntry and their declared widths.
FieldNames ==
    {"core_busy", "fifo1_load", "fifo2_load", "fifo3_load",
     "core0_div", "core1_div", "core2_div", "core3_div", "rl_enabled"}

Width(f) ==
    IF f \in {"fifo1_load", "fifo2_load", "fifo3_load"} THEN 3
    ELSE IF f = "rl_enabled" THEN 1
    ELSE 4

InRange(e) == \A f \in FieldNames : e[f] \in 0..(2 ^ Width(f) - 1)

\* An entry was packed by the device and decoded by complete_receiver.
RoundTripped == pc = "decoded" /\ script = "cr" /\ entry # None

\* C15: for every entry whose fields lie within their declared widths
\* (core_busy 0..15, fifo loads 0..7, dividers 0..15, rl_enabled 0..1),
\* decode(encode(entry)) reproduces every field of the entry.
C15_RoundTrip ==
    (RoundTripped /\ InRange(entry)) =>
        \A f \in FieldNames : ret[f] = entry[f]

C15_Witness ==
    /\ RoundTripped
    /\ entry = [core_busy |-> 10, fifo1_load |-> 6, fifo2_load |-> 7,
                fifo3_load |-> 6, core0_div |-> 15, core1_div |-> 10,
                core2_div |-> 0, core3_div |-> 15, rl_enabled |-> 1]
    /\ ret.raw = Wide(44535, 53372)
    /\ ret.core0_div = 15 /\ ret.core2_div = 0 /\ ret.rl_enabled = 1

\* C16: encode never rejects an out-of-range field; a field of width W given
\* the value 2^W packs to the same word as the value 0: each field is packed
\* modulo 2^W and never spills into a neighbouring field.
C16_Masking ==
    (pc = "bytes" /\ entry # None) =>
        /\ all_data \in [1..4 -> 0..255]
        /\ all_data = to_bytes_big(encode([f \in FieldNames |-> entry[f] % (2 ^ Width(f))]))
        /\ \A f \in FieldNames :
              entry[f] = 2 ^ Width(f) =>
                  all_data = to_bytes_big(encode([entry EXCEPT ![f] = 0]))

\* fifo1_load is 8 and core0_div is 16, next to fields holding their
\* largest values; the word sent is the one of the entry with both at 0.
C16_Witness ==
    /\ pc = "bytes"
    /\ entry = [core_busy |-> 15, fifo1_load |-> 8, fifo2_load |-> 7,
                fifo3_load |-> 7, core0_div |-> 16, core1_div |-> 15,
                core2_div |-> 15, core3_div |-> 15, rl_enabled |-> 2]
    /\ all_data = <<241, 248, 127, 248>>

-----------------------------------------------------------------------------
(* Malformed input.                                                        *)

Exceptions == {"struct.error", "IndexError", "ValueError", "TypeError"}

\* The call returned a value.
Returned(v) == \A exc \in Exceptions : v # Raised(exc)

\* C17: for every buffer, the empty one included, and every start_offset
\* >= 0, also past the end of the buffer, extract_performance_logs and both
\* parse_logs return a value, an error or empty outcome or a parsed result,
\* and never raise.
C17_NoException ==
    (pc = "done" /\ script \in Parsers) =>
        /\ Returned(ret)
        /\ IF script = "cr"
           THEN \A i \in 1..Len(ret) : ret[i] = cr_decode_log_entry(ret[i].raw)
           ELSE \/ /\ ret[1] = None
                   /\ ret[2] \in {Str("No LOG: header found"), Str("Incomplete log header"),
                                  Str("No LOG: header"), Str("Incomplete header")}
                \/ /\ ret[2] = None
                   /\ ret[1].count \in 0..65535
                   /\ Len(ret[1].entries) <= ret[1].count

\* The search starts past the end of a buffer that holds the first byte of
\* a header and nothing else.
C17_Witness ==
    /\ pc = "done" /\ script = "rlt"
    /\ all_data = <<76>>
    /\ start_offset > Len(all_data)
    /\ ret = <<None, Str("No LOG: header")>>

-----------------------------------------------------------------------------
(* The default entry.                                                      *)

SENTINEL == Wide(57005, 48879)

\* The buffer d with the four bytes at offset p replaced by the word 0.
WithoutWordAt(d, p) ==
    [j \in 1..Len(d) |-> IF j \in (p + 1)..(p + 4) THEN 0 ELSE d[j]]

\* The parser that ran, applied to another buffer with the same offset.
Reparse(d) ==
    CASE script = "cr"  -> extract_performance_logs(d, start_offset)
      [] script = "ril" -> ril_parse_logs(d)
      [] script = "rlt" -> rlt_parse_logs(d, start_offset)

\* The entries of an outcome of the parser that ran.
EntriesOf(r) == IF script = "cr" THEN r ELSE r[1].entries

\* C18: a word equal to 0xDEADBEEF at any entry position is decoded by the
\* same field extraction as every other word and kept in entries at its
\* position with raw = 0xDEADBEEF; it does not stop parsing or change the
\* entry count or the complete flag (the outcome is that of the same buffer
\* with another word in its place, but for that entry); only the rendering
\* treats it specially.
C18_SentinelEntries ==
    (pc = "done" /\ script \in Parsers) =>
        \A h \in SearchFrom..(Len(InputData) - 6) :
            FirstHeader(InputData, SearchFrom, h) =>
                LET d == InputData
                    k == Readable(d, h, DeclaredCount(d, h))
                IN  \A i \in 1..k :
                        LET p == h + 6 + 4 * (i - 1)
                            other == Reparse(WithoutWordAt(d, p))
                        IN  WordAt(d, p) = SENTINEL =>
                                /\ NoError
                                /\ Len(Entries) = k
                                /\ Entries[i].raw = SENTINEL
                                /\ Entries[i] = Decode(SENTINEL)
                                /\ Len(EntriesOf(other)) = k
                                /\ \A j \in (1..k) \ {i} : EntriesOf(other)[j] = Entries[j]
                                /\ script # "cr" =>
                                      /\ other[2] = None
                                      /\ other[1] = [ret[1] EXCEPT !.entries = other[1].entries]
                                /\ script = "ril" =>
                                      /\ ril_render_entry(Entries[i])
                                             = Str("0xDEADBEEF - DEFAULT TEST ENTRY")
                                      /\ ril_render_entry(other[1].entries[i])
                                             = [Cores |-> 0, FIFOs |-> <<0, 0, 0>>,
                                                Divs |-> <<0, 0, 0, 0>>]

\* A complete frame of two entries whose first word is 0xDEADBEEF and whose
\* second is not.
C18_Witness ==
    /\ pc = "done" /\ script = "cr"
    /\ IsExactFrame(all_data) /\ start_offset = 0
    /\ Len(ret) = 2
    /\ ret[1].raw = SENTINEL
    /\ ret[1].core_busy = 13
    /\ ret[2].raw # SENTINEL

-----------------------------------------------------------------------------
(* Reception.                                                              *)

\* One of the two timeout checks fires at the start of the next pass.
TimeoutDue ==
    \/ now > max_timeout
    \/ now - last_recv_time > idle_timeout /\ Len(all_data) > 0

\* C19: receive_all_data returns once the elapsed time exceeds max_timeout,
\* or once no byte has arrived for more than idle_timeout after at least one
\* byte was received, whichever check fires first (it returns in the pass
\* that finds a check true, with the buffer as it is, and in no other pass);
\* it cannot loop forever, whether the device streams without pause, never
\* sends a byte, or sends now and then.
C19_ReceptionEnds ==
    /\ [][(pc = "receiving" /\ pc' = "received") => TimeoutDue]_vars
    /\ [][(pc = "receiving" /\ TimeoutDue) =>
              (pc' = "received" /\ all_data' = all_data)]_vars
    /\ <>(pc # "receiving")

\* The device streamed in every pass and the loop ended on max_timeout.
C19_Witness ==
    /\ pc = "received"
    /\ device = "streaming"
    /\ now > max_timeout
    /\ now - last_recv_time <= idle_timeout
    /\ recv_count > idle_timeout

RECURSIVE Concat(_)
Concat(chunks) ==
    IF chunks = <<>> THEN <<>> ELSE Head(chunks) \o Concat(Tail(chunks))

\* C20: the buffer receive_all_data returns is the concatenation, in
\* arrival order, of every chunk read during the call; image extraction and
\* log parsing run only after the loop has ended, once, on that full buffer.
C20_AccumulationIntegrity ==
    /\ all_data = Concat(reads)
    /\ recv_count = Len(reads)
    /\ pc \in {"receiving", "received"} => ret = None
    /\ pc = "done" =>
          /\ ret.raw = Concat(reads)
          /\ ret.image = extract_image(Concat(reads), start_offset)
          /\ ret.entries = extract_performance_logs(Concat(reads), start_offset)
          /\ ~ENABLED NextRecv

\* Header, entry and footer arrived in three reads and the entry was parsed.
C20_Witness ==
    /\ pc = "done"
    /\ reads = <<LOG_HEADER \o U16(1), DEFAULT_ENTRY, END_FOOTER>>
    /\ start_offset = 0
    /\ Len(ret.entries) = 1
    /\ ret.entries[1].raw = Wide(57005, 48879)
    /\ ret.raw = all_data

-----------------------------------------------------------------------------
(* Sentinel mode.                                                          *)

\* Every byte of the response: read, waiting in the port, or still to come.
Response == Concat(reads) \o line \o stream

\* The 0-based offsets at which the sentinel occurs in a byte sequence.
SentinelAt(s) ==
    {i \in 0..(Len(s) - 4) : SubSeq(s, i + 1, i + 4) = <<47, 48, 47, 48>>}

\* C21: send_with_sentinel and send_and_receive_sentinel return exactly the
\* bytes received before the first occurrence of the sentinel '/0/0', the
\* sentinel excluded, and read no byte beyond the end of that occurrence;
\* while no sentinel has been received they return nothing, and when the
\* read times out before a sentinel has arrived they raise TimeoutError.
C21_SentinelMode ==
    /\ pc = "returned" =>
          /\ SentinelAt(Response) # {}
          /\ LET p == Min(SentinelAt(Response))
             IN  /\ ret = SubSeq(Response, 1, p)
                 /\ Len(Concat(reads)) = p + 4
    /\ pc = "reading" => /\ SentinelAt(Concat(reads)) = {}
                         /\ ret = None
    /\ pc = "raised" => /\ SentinelAt(Concat(reads)) = {}
                        /\ ret = Raised("TimeoutError")

\* The response '//0/0' followed by more bytes: the first '/' is returned
\* and the bytes after the sentinel are left unread.
C21_Witness ==
    /\ pc = "returned"
    /\ script = "sars"
    /\ ret = <<47>>
    /\ line # <<>>

-----------------------------------------------------------------------------
(* Length mode, the fallback for a device that sends no response header.   *)

\* C22: the device sends no response header and streams raw bytes without
\* stalling; for every raw stream of at least expected_len bytes and every
\* expected_len > 0, send_with_length returns the pair (image_bytes,
\* logger_bytes) whose image bytes are exactly the first expected_len bytes
\* the device sent, the bytes read while probing for the header included.
C22_LengthFallback ==
    (/\ script = "swl"
     /\ pc \in {"returned", "raised"}
     /\ expected_len > 0
     /\ device # "stalled"
     /\ Len(Response) >= expected_len)
        => /\ pc = "returned"
           /\ DOMAIN ret = {"image", "logger"}
           /\ ret.image = SubSeq(Response, 1, expected_len)

-----------------------------------------------------------------------------
(* The folder loops.                                                       *)

\* The images whose transfer has ended, with a response or with a failure.
Ended == {results[j].name : j \in 1..Len(results)}

\* The images whose transfer, or whose loading, failed.
Failed == {results[j].name : j \in {i \in 1..Len(results) : ~results[i].success}}

C30_NoCrossImageContamination ==
    \A j \in 1..Len(results) :
        results[j].success =>
            \A i \in 1..Len(results[j].data) : results[j].data[i] = results[j].name

-----------------------------------------------------------------------------
(* Streaming log reception.                                                *)

\* The bytes read from the port so far.
BytesRead == IF reads = <<>> THEN <<>> ELSE reads[1]

\* The lines the CSV holds for a frame: entry i decoded from word i.
RowsOf(d) ==
    [i \in 1..DeclaredCount(d, 0) |->
        csv_row(i - 1, pc_parse_log_entry(SubSeq(d, 4 * i + 3, 4 * i + 6)))]

\* C24: receive_performance_logs returns True, and has written the CSV with
\* one line per entry, exactly when the bytes it read from the port are
\* 'LOG:', a 2-byte big-endian count N, N entries of 4 bytes and 'END\n'
\* right after the last entry; in every other case (header timeout, wrong
\* header, short count, short entry, wrong footer) it returns False, and no
\* CSV exists before or after.
C24_AllOrNothing ==
    /\ pc # "returned" => perf_csv = None
    /\ pc = "returned" =>
          IF IsExactFrame(BytesRead)
          THEN /\ ret = Bool(TRUE)
               /\ perf_csv = [rows |-> RowsOf(BytesRead)]
          ELSE /\ ret = Bool(FALSE)
               /\ perf_csv = None

\* A frame of two entries was read in full: True, and two CSV lines.
C24_Witness ==
    /\ script = "rpl"
    /\ pc = "returned"
    /\ ret = Bool(TRUE)
    /\ Len(perf_csv.rows) = 2

-----------------------------------------------------------------------------
(* Image reconstruction.                                                   *)

\* C25: every reconstruction of the image from a received buffer of at
\* least one byte builds a pixel buffer of exactly width * height bytes, the
\* received image bytes in order, truncated to the image size or padded at
\* the end with zero-valued bytes, so that the reshape succeeds.
C25_ReconstructionSize ==
    (/\ pc = "done"
     /\ script \in ImageScripts
     /\ Len(all_data) >= 1
     /\ ret # None)
        => /\ Len(ret.pixels) = OUT_WIDTH * OUT_HEIGHT
           /\ ret.reshaped
           /\ \E n \in 0..(OUT_WIDTH * OUT_HEIGHT) :
                 /\ n <= Len(all_data)
                 /\ ret.pixels = SubSeq(all_data, 1, n)
                                    \o [i \in 1..(OUT_WIDTH * OUT_HEIGHT - n) |-> 0]

-----------------------------------------------------------------------------
(* The three buffer parsers side by side.                                  *)

\* The entries of an outcome: those of the list complete_receiver returns,
\* those of the result of a parse_logs, none when parse_logs reports an
\* error.
ParsedEntries(s, r) ==
    IF s = "cr" THEN r
    ELSE IF r[2] = None THEN r[1].entries ELSE <<>>

\* C26: for every buffer and start offset, extract_performance_logs,
\* receive_image_and_logs.parse_logs on the buffer sliced at the offset and
\* receive_logs_then_image.parse_logs return the same number of entries with
\* the same raw words in the same order: the parser that ran agrees with
\* each of the three.
C26_ParsersAgree ==
    (pc = "done" /\ script \in Parsers) =>
        LET cr  == extract_performance_logs(all_data, start_offset)
            ril == ril_parse_logs(SubSeq(all_data, start_offset + 1, Len(all_data)))
            rlt == rlt_parse_logs(all_data, start_offset)
            got == Raws(ParsedEntries(script, ret))
        IN  /\ got = Raws(ParsedEntries("cr", cr))
            /\ got = Raws(ParsedEntries("ril", ril))
            /\ got = Raws(ParsedEntries("rlt", rlt))

\* receive_logs_then_image parsed, from an offset past the start, a frame
\* that declares two entries and holds one in full and a part of the second:
\* its loop went on past the unreadable entry, the others break there.
C26_Witness ==
    /\ pc = "done"
    /\ script = "rlt"
    /\ start_offset > 0
    /\ ret[2] = None
    /\ ret[1].count = 2
    /\ Len(ret[1].entries) = 1
    /\ Len(all_data) > ret[1].log_start + 10


\* What python_correct.parse_log_entry and receive_image_and_logs'
\* decode_log_entry make of the four bytes that were decoded.
ByParseLogEntry == pc_parse_log_entry(Slice(all_data, 0, 4))

ByDecodeLogEntry == ril_decode_log_entry(from_bytes_big(Slice(all_data, 0, 4)))

SameNamedFields ==
    {"fifo1_load", "fifo2_load", "fifo3_load",
     "core0_divider", "core1_divider", "core2_divider", "core3_divider"}

\* C27: whichever script decodes an entry word, the same-named fields get the
\* same values: python_correct.parse_log_entry and the decode_log_entry of the
\* receiver scripts agree on fifo1_load, fifo2_load, fifo3_load and on the
\* dividers of core0..core3.
C27_DecodersAgree ==
    (pc = "decoded") =>
        \A f \in SameNamedFields \cap DOMAIN ret :
            /\ ret[f] = ByParseLogEntry[f]
            /\ ret[f] = ByDecodeLogEntry[f]


\* The bytes the image-reception step has taken from the port: buf of
\* receiver_thread_fn, all_data of receive_logs_then_image's image loop.
ImageStepBytes == IF script = "rlt" THEN all_data ELSE buf

\* C28: no log byte is lost at the image/log boundary: in python_correct and
\* receive_logs_then_image the image-reception step takes no byte past the
\* IMAGE_SIZE image bytes, so that every byte the device sends after them is
\* left for the log-frame parsing step, however the stream is split into
\* reads.
C28_NoLogByteLost ==
    script \in {"pc", "rlt"} => len(ImageStepBytes) <= IMAGE_SIZE

\* The receiver thread is inside ser.read(4096).
RecvReading == recv_pc = "reading"

\* C29: one reader at a time: in python_correct.main no read of
\* receive_performance_logs happens while receiver_thread_fn is reading, and
\* in send_and_receive_64x64_gray.main the port is closed only when the
\* receiver thread has stopped reading.
C29_SingleReader ==
    [][/\ (script = "pc" /\ reads' # reads) => ~RecvReading
       /\ (script = "gray" /\ port_open /\ ~port_open') => ~RecvReading]_vars

====
